---- MODULE Spec2Model ----
(***************************************************************************)
(* Senator quiz (static/app.js, kept as src/unnamed/part_000): the question *)
(* Generator, the answer Validator and the utilities they share.            *)
(*                                                                          *)
(* JavaScript strings are sequences of characters (each character a TLA+    *)
(* string); an optional JSON field is [def, val], so that undefined and ""  *)
(* stay different values.                                                   *)
(*                                                                          *)
(* part_000 line 508 holds a stray closing brace inside validateAnswer; the *)
(* model follows the statements of lines 452-530 in the order written.      *)
(***************************************************************************)
EXTENDS Integers, Sequences, FiniteSets, TLC

VARIABLES
    phase,        \* position of the control flow of the specification at hand
    raw,          \* the parsed senators.json (loadSenators: data)
    senators,     \* GameState.data.senators
    g_difficulty, \* generateQuestion: difficulty
    g_allowed,    \* generateQuestion: allowed, after shuffleInPlace
    g_log,        \* generateQuestion: the template keys tried, in order, with their outcome
    g_result,     \* generateQuestion: the value returned (or the exception thrown)
    v_question,   \* validateAnswer: question
    v_input,      \* validateAnswer: userInput
    v_verdict,    \* validateAnswer: the value returned
    w_target,     \* withinMisspellingThreshold: target
    w_result,     \* withinMisspellingThreshold: the value returned
    s_state,      \* GameState.state
    sg_run,       \* UI.startGame: mode, attempts, the generateQuestion calls made, questions
    u_locked,     \* submitBtn.disabled (inputEl.disabled is set with it)
    u_screen,     \* the screen shown by UI.showScreen
    u_subs,       \* the submissions of submitCurrent whose timers or listener are alive
    u_results,    \* showResults: results, the value of GameState.toResults()
    now,          \* the wall clock, as far as the program has read it
    p_a,          \* string functions: the first argument
    p_b,          \* string functions: the second argument
    p_out,        \* string functions: the values returned
    r_rng,        \* generateQuestion: rnd, the supplied random source
    r_first,      \* the outcome of a first call with r_rng
    r_second,     \* the outcome of a second call with r_rng
    m_mode,       \* script.js: currentMode
    m_data,       \* script.js: senatorData and governorData after init
    m_targets,    \* script.js: filteredTargets
    m_target,     \* script.js: currentTarget
    m_streak,     \* script.js: streak
    m_highScore,  \* script.js: highScore
    m_stored,     \* localStorage: politicsHighScore
    m_last,       \* script.js: lastGuessSuccessful
    m_hasGuessed, \* script.js: hasGuessed
    m_layers,     \* script.js: userMarker, actualMarker, connectionLine, highlightedPolygon
    m_panel,      \* resultPanel is shown (its class list lacks "hidden")
    m_overlay,    \* modeSelection is shown
    m_guesses,    \* the guesses evaluated since startGame, with nextRound's confirmations
    m_clicks      \* the map clicks since the round began

genValVars == <<raw, senators, g_difficulty, g_allowed, g_log, g_result,
                v_question, v_input, v_verdict, w_target, w_result>>
sesVars == <<s_state, sg_run, u_locked, u_screen, u_subs, u_results, now>>
strVars == <<p_a, p_b, p_out>>
rngVars == <<r_rng, r_first, r_second>>
mapVars == <<m_mode, m_data, m_targets, m_target, m_streak, m_highScore, m_stored,
             m_last, m_hasGuessed, m_layers, m_panel, m_overlay, m_guesses,
             m_clicks>>

\* the variables the specifications of the Generator and of the Validator leave alone
extVars == <<sesVars, strVars, rngVars, mapVars>>

vars == <<phase, genValVars, extVars>>

genVars == <<raw, senators, g_difficulty, g_allowed, g_log, g_result>>
valVars == <<v_question, v_input, v_verdict, w_target, w_result>>

-----------------------------------------------------------------------------
(* Characters *)

UpperChars == <<"A", "B", "C", "D", "E", "F", "G", "H", "I", "J", "K", "L", "M",
                "N", "O", "P", "Q", "R", "S", "T", "U", "V", "W", "X", "Y", "Z",
                "E_ACUTE">>

LowerChars == <<"a", "b", "c", "d", "e", "f", "g", "h", "i", "j", "k", "l", "m",
                "n", "o", "p", "q", "r", "s", "t", "u", "v", "w", "x", "y", "z",
                "e_acute">>

AsciiLower == {"a", "b", "c", "d", "e", "f", "g", "h", "i", "j", "k", "l", "m",
               "n", "o", "p", "q", "r", "s", "t", "u", "v", "w", "x", "y", "z"}

Digits == {"0", "1", "2", "3", "4", "5", "6", "7", "8", "9"}

\* the characters the regular expression class \s matches
Whitespace == {" ", "\t"}

\* String.prototype.toLowerCase, one character
ToLowerChar(c) ==
    IF \E i \in 1..Len(UpperChars) : UpperChars[i] = c
    THEN LowerChars[CHOOSE i \in 1..Len(UpperChars) : UpperChars[i] = c]
    ELSE c

\* String.prototype.normalize("NFKD"), one character: an accented letter
\* becomes its base letter followed by a combining mark, the trade mark sign
\* (which has no lower case) the capitals TM
NFKDChar(c) ==
    IF c = "e_acute" THEN <<"e", "COMBINING_ACUTE">>
    ELSE IF c = "E_ACUTE" THEN <<"E", "COMBINING_ACUTE">>
    ELSE IF c = "TM_SIGN" THEN <<"T", "M">>
    ELSE <<c>>

\* the combining marks U+0300 to U+036F
IsCombiningMark(c) == c = "COMBINING_ACUTE"

RECURSIVE FlatMap(_, _)
FlatMap(s, i) ==
    IF i > Len(s) THEN <<>> ELSE NFKDChar(s[i]) \o FlatMap(s, i + 1)

\* .replace(/\s+/g, " "): every maximal run of whitespace becomes one space
RECURSIVE CollapseSpaces(_, _)
CollapseSpaces(s, i) ==
    IF i > Len(s) THEN <<>>
    ELSE IF s[i] \in Whitespace
         THEN IF i > 1 /\ s[i - 1] \in Whitespace
              THEN CollapseSpaces(s, i + 1)
              ELSE <<" ">> \o CollapseSpaces(s, i + 1)
         ELSE <<s[i]>> \o CollapseSpaces(s, i + 1)

\* String.prototype.trim
RECURSIVE TrimLeft(_)
TrimLeft(s) ==
    IF s # <<>> /\ Head(s) \in Whitespace THEN TrimLeft(Tail(s)) ELSE s

RECURSIVE TrimRight(_)
TrimRight(s) ==
    IF s # <<>> /\ s[Len(s)] \in Whitespace
    THEN TrimRight(SubSeq(s, 1, Len(s) - 1))
    ELSE s

Trim(s) == TrimRight(TrimLeft(s))

\* normalizeName with the final trim left out
normalizeNameUntrimmed(str) ==
    LET lower    == [i \in 1..Len(str) |-> ToLowerChar(str[i])]
        nfkd     == FlatMap(lower, 1)
        unmarked == SelectSeq(nfkd, LAMBDA c : ~IsCombiningMark(c))
        kept     == SelectSeq(unmarked,
                              LAMBDA c : c \in AsciiLower \cup Digits \cup Whitespace)
    IN  CollapseSpaces(kept, 1)

normalizeName(str) ==
    LET lower    == [i \in 1..Len(str) |-> ToLowerChar(str[i])]
        nfkd     == FlatMap(lower, 1)
        unmarked == SelectSeq(nfkd, LAMBDA c : ~IsCombiningMark(c))
        kept     == SelectSeq(unmarked,
                              LAMBDA c : c \in AsciiLower \cup Digits \cup Whitespace)
    IN  Trim(CollapseSpaces(kept, 1))

\* String.prototype.split(" "): the parts between single spaces, empty parts kept
RECURSIVE SplitSpace(_, _, _)
SplitSpace(s, i, cur) ==
    IF i > Len(s) THEN <<cur>>
    ELSE IF s[i] = " "
         THEN <<cur>> \o SplitSpace(s, i + 1, <<>>)
         ELSE SplitSpace(s, i + 1, Append(cur, s[i]))

lastNameOf(full) ==
    LET parts == SplitSpace(normalizeName(full), 1, <<>>)
    IN  parts[Len(parts)]

Min2(x, y) == IF x <= y THEN x ELSE y

\* one row dp[i][0..n] of the table, from the row above it (prev = dp[i-1]);
\* a row is kept as a sequence, dp[i][j] at index j + 1, and cur holds
\* dp[i][0..j-1] when dp[i][j] is computed
RECURSIVE LevRow(_, _, _, _, _)
LevRow(a, b, i, prev, cur) ==
    IF Len(cur) > Len(b) THEN cur
    ELSE LET j    == Len(cur)
             cost == IF a[i] = b[j] THEN 0 ELSE 1
             cell == Min2(Min2(prev[j + 1] + 1, cur[j] + 1), prev[j] + cost)
         IN  LevRow(a, b, i, prev, Append(cur, cell))

RECURSIVE LevRows(_, _, _, _)
LevRows(a, b, i, prev) ==
    IF i > Len(a) \/ Len(prev) = 0 THEN prev
    ELSE LevRows(a, b, i + 1, LevRow(a, b, i, prev, <<i>>))

\* levenshtein with its second argument taken as it comes
levenshteinRawSecond(a0, b0) ==
    LET a == normalizeName(a0)
        b == b0
        m == Len(a)
        n == Len(b)
    IN  IF m = 0 THEN n
        ELSE IF n = 0 THEN m
        ELSE LevRows(a, b, 1, [j \in 1..(n + 1) |-> j - 1])[n + 1]

levenshtein(a0, b0) ==
    LET a == normalizeName(a0)
        b == normalizeName(b0)
        m == Len(a)
        n == Len(b)
    IN  IF m = 0 THEN n
        ELSE IF n = 0 THEN m
        ELSE LevRows(a, b, 1, [j \in 1..(n + 1) |-> j - 1])[n + 1]

\* the length from which a target counts as long
LongTokenLen == 7

\* the rule with the long-token allowance left out
withinMisspellingThresholdShortOnly(input, target) ==
    levenshtein(normalizeName(input), normalizeName(target)) <= 1

\* the rule with the allowance decided by the input's length
withinMisspellingThresholdByInput(input, target) ==
    LET t    == normalizeName(target)
        i    == normalizeName(input)
        dist == levenshtein(i, t)
    IN  IF Len(i) >= LongTokenLen THEN dist <= 2 ELSE dist <= 1

withinMisspellingThreshold(input, target) ==
    LET t    == normalizeName(target)
        i    == normalizeName(input)
        dist == levenshtein(i, t)
    IN  IF Len(t) >= LongTokenLen THEN dist <= 2 ELSE dist <= 1

-----------------------------------------------------------------------------
(* JavaScript values *)

\* undefined / null, and a defined value, of an optional field or variable
Undefined == [def |-> FALSE, val |-> <<>>]
Some(v) == [def |-> TRUE, val |-> v]

\* truthiness of an optional string
Truthy(x) == x.def /\ x.val # <<>>

\* String.prototype.startsWith
StartsWith(s, prefix) ==
    Len(s) >= Len(prefix) /\ SubSeq(s, 1, Len(prefix)) = prefix

Http == <<"h", "t", "t", "p">>
PORTRAIT_BASE == <<"a", "s", "s", "e", "t", "s", "/">>

Democrat == <<"D", "e", "m", "o", "c", "r", "a", "t">>
Republican == <<"R", "e", "p", "u", "b", "l", "i", "c", "a", "n">>
Independent == <<"I", "n", "d", "e", "p", "e", "n", "d", "e", "n", "t">>
Senior == <<"S", "e", "n", "i", "o", "r">>
Junior == <<"J", "u", "n", "i", "o", "r">>
Unknown == <<"u", "n", "k", "n", "o", "w", "n">>

Parties == <<Democrat, Republican, Independent>>
Seniorities == <<Senior, Junior>>

\* Array.prototype.includes
oneOf(val, arr) == \E i \in 1..Len(arr) : arr[i] = val

-----------------------------------------------------------------------------
(* Data loading *)

\* the cleaned record with the final "" of the portrait left out
CleanSenatorNoDefault(s) ==
    [name      |-> s.name.val,
     state     |-> s.state.val,
     party     |-> IF oneOf(s.party.val, Parties) THEN s.party.val ELSE Independent,
     seniority |-> IF oneOf(s.seniority.val, Seniorities) THEN s.seniority.val ELSE Junior,
     portrait  |-> IF Truthy(s.portrait) THEN s.portrait ELSE s.portrait_image]

\* one cleaned record of loadSenators
CleanSenator(s) ==
    [name      |-> s.name.val,
     state     |-> s.state.val,
     party     |-> IF oneOf(s.party.val, Parties) THEN s.party.val ELSE Independent,
     seniority |-> IF oneOf(s.seniority.val, Seniorities) THEN s.seniority.val ELSE Junior,
     portrait  |-> IF Truthy(s.portrait) THEN s.portrait
                   ELSE IF Truthy(s.portrait_image) THEN s.portrait_image
                   ELSE Some(<<>>)]

\* the value loadSenators resolves to when the fetch succeeds with `data`; a
\* null entry of the data is an entry with every field undefined
loadSenators(data) ==
    LET kept == SelectSeq(data, LAMBDA s : Truthy(s.name) /\ Truthy(s.state)
                                           /\ Truthy(s.party) /\ Truthy(s.seniority))
    IN  [i \in 1..Len(kept) |-> CleanSenator(kept[i])]

officialName(sen) == sen.name

\* a failure whose kind is not set from the argument
errorObjectUntyped(error_type, message, details) ==
    [kind |-> "error", error_type |-> "error", message |-> message, details |-> details]

errorObject(error_type, message, details) ==
    [kind |-> "error", error_type |-> error_type, message |-> message, details |-> details]

\* an exception (a TypeError) leaving the function
Thrown == [kind |-> "throw"]

isError(obj) == obj.kind = "error"

\* the number of identifiers makeId is taken to draw from
NumIds == 1

\* makeId: the identifiers it may return
makeId == 1..NumIds

RECURSIVE Dedup(_, _, _)
Dedup(s, i, acc) ==
    IF i > Len(s) THEN acc
    ELSE Dedup(s, i + 1, IF oneOf(s[i], acc) THEN acc ELSE Append(acc, s[i]))

uniqueStates(sens) == Dedup([i \in 1..Len(sens) |-> sens[i].state], 1, <<>>)

\* the values pickRandom may return over the values of rnd()
pickRandom(arr) ==
    IF Len(arr) = 0 THEN {Undefined} ELSE {Some(arr[i]) : i \in 1..Len(arr)}

SwapAt(arr, i, j) == [arr EXCEPT ![i] = arr[j], ![j] = arr[i]]

\* the arrays shuffleInPlace may leave over the values of rnd(); i is the code's
\* loop variable plus one
RECURSIVE shuffleInPlace(_, _)
shuffleInPlace(arr, i) ==
    IF i <= 1 THEN {arr}
    ELSE UNION {shuffleInPlace(SwapAt(arr, i, j), i - 1) : j \in 1..i}

\* groupByState(senators)[state]
byState(sens, state) == SelectSeq(sens, LAMBDA s : s.state = state)

getByStatePartySeniority(sens, state, party, seniority) ==
    SelectSeq(sens, LAMBDA s :
        /\ ~(Truthy(state) /\ s.state # state.val)
        /\ ~(Truthy(party) /\ s.party # party.val)
        /\ ~(Truthy(seniority) /\ s.seniority # seniority.val))

-----------------------------------------------------------------------------
(* Rules: templates *)

Templates(difficulty) ==
    IF difficulty = "Easy"
    THEN <<[key |-> "state_any", type |-> "text"],
           [key |-> "state_party_any", type |-> "text"],
           [key |-> "state_seniority", type |-> "text"],
           [key |-> "party_of_portrait", type |-> "text"],
           [key |-> "state_of_portrait", type |-> "text"]>>
    ELSE <<[key |-> "portrait_only", type |-> "portrait"],
           [key |-> "state_seniority", type |-> "text"],
           [key |-> "state_party_seniority", type |-> "text"],
           [key |-> "party_of_random", type |-> "text"],
           [key |-> "state_of_random", type |-> "text"]>>

\* filled_variables with no placeholder filled
NoVars == [name |-> Undefined, state |-> Undefined, party |-> Undefined,
           seniority |-> Undefined, portrait_image |-> Undefined]

Question(id, template, filled_variables, difficulty, correct_answers, allowed_answer_modes, type, portrait_image) ==
    [kind |-> "question", id |-> id, template |-> template,
     filled_variables |-> filled_variables, difficulty |-> difficulty,
     correct_answers |-> correct_answers,
     allowed_answer_modes |-> allowed_answer_modes, type |-> type,
     portrait_image |-> portrait_image]

\* s.portrait.startsWith("http") ? s.portrait : PORTRAIT_BASE + s.portrait
PortraitUrl(portrait) ==
    IF StartsWith(portrait, Http) THEN portrait ELSE PORTRAIT_BASE \o portrait

EasyModes(difficulty) ==
    IF difficulty = "Easy" THEN <<"last_name", "full_name">> ELSE <<"full_name">>

\* statePartyAny looping once more
StatePartyAnyAttemptsOneMore == 30 + 1

StatePartyAnyAttempts == 30
StateSeniorityAttempts == 40
StatePartySeniorityAttempts == 50

-----------------------------------------------------------------------------
(* Generator: template fillers.  Each filler is the set of the values the    *)
(* call may return over the values of rnd(), Math.random() and makeId().     *)

portraitOnly(difficulty, sens) ==
    UNION {
        IF ~s.def \/ ~Truthy(s.val.portrait)
        THEN {errorObject("data_missing", "Portrait asset not found.",
                          Some(IF s.def /\ s.val.name # <<>> THEN s.val.name ELSE Unknown))}
        ELSE {Question(id, "Who is this senator?",
                       [NoVars EXCEPT !.portrait_image = Some(PortraitUrl(s.val.portrait.val))],
                       difficulty, <<officialName(s.val)>>, EasyModes(difficulty),
                       "portrait", Undefined) : id \in makeId}
        : s \in pickRandom(sens)}

\* stateAny listing the first member of the state alone
stateAnyFirstOnly(sens) ==
    UNION {
        LET matches == IF state.def THEN byState(sens, state.val) ELSE <<>>
        IN  IF Len(matches) < 1
            THEN {errorObject("unsolvable_template",
                              "No senators found for selected state.", state)}
            ELSE {Question(id, "Name a senator from {state}.",
                           [NoVars EXCEPT !.state = state], "Easy",
                           <<officialName(matches[1])>>,
                           <<"last_name", "full_name">>, "text", Undefined)
                  : id \in makeId}
        : state \in pickRandom(uniqueStates(sens))}

stateAny(sens) ==
    UNION {
        LET matches == IF state.def THEN byState(sens, state.val) ELSE <<>>
        IN  IF Len(matches) < 1
            THEN {errorObject("unsolvable_template",
                              "No senators found for selected state.", state)}
            ELSE {Question(id, "Name a senator from {state}.",
                           [NoVars EXCEPT !.state = state], "Easy",
                           [i \in 1..Len(matches) |-> officialName(matches[i])],
                           <<"last_name", "full_name">>, "text", Undefined)
                  : id \in makeId}
        : state \in pickRandom(uniqueStates(sens))}

\* the loop of statePartyAny from iteration `attempt` on
RECURSIVE statePartyAnyFrom(_, _)
statePartyAnyFrom(sens, attempt) ==
    IF attempt >= StatePartyAnyAttempts
    THEN {errorObject("unsolvable_template",
                      "Could not find a state+party with at least one match for Easy.",
                      Undefined)}
    ELSE LET draws == pickRandom(uniqueStates(sens)) \X pickRandom(Parties)
             M(d)  == getByStatePartySeniority(sens, d[1], d[2], Undefined)
             good  == {d \in draws : Len(M(d)) >= 1}
         IN  {Question(id, "Name a {party} senator from {state}.",
                       [NoVars EXCEPT !.party = d[2], !.state = d[1]], "Easy",
                       [i \in 1..Len(M(d)) |-> officialName(M(d)[i])],
                       <<"last_name", "full_name">>, "text", Undefined)
              : d \in good, id \in makeId}
             \cup (IF draws \ good # {} THEN statePartyAnyFrom(sens, attempt + 1) ELSE {})

statePartyAny(sens) == statePartyAnyFrom(sens, 0)

\* the loop of stateSeniority taking any draw with a match
stateSeniorityAtLeastOne(difficulty, sens, attempt) ==
    LET draws == pickRandom(uniqueStates(sens)) \X pickRandom(Seniorities)
        M(d)  == getByStatePartySeniority(sens, d[1], Undefined, d[2])
        good  == {d \in draws : Len(M(d)) >= 1}
    IN  {Question(id, "Name the {seniority} Senator from {state}.",
                  [NoVars EXCEPT !.state = d[1], !.seniority = d[2]], difficulty,
                  <<officialName(M(d)[1])>>, EasyModes(difficulty), "text", Undefined)
         : d \in good, id \in makeId}
        \cup (IF draws \ good # {}
              THEN {errorObject("ambiguous_answer",
                                "Could not enforce uniqueness for state+seniority.",
                                Undefined)}
              ELSE {})

\* the loop of stateSeniority from iteration `attempt` on
RECURSIVE stateSeniorityFrom(_, _, _)
stateSeniorityFrom(difficulty, sens, attempt) ==
    IF attempt >= StateSeniorityAttempts
    THEN {errorObject("ambiguous_answer",
                      "Could not enforce uniqueness for state+seniority.", Undefined)}
    ELSE LET draws == pickRandom(uniqueStates(sens)) \X pickRandom(Seniorities)
             M(d)  == getByStatePartySeniority(sens, d[1], Undefined, d[2])
             good  == {d \in draws : Len(M(d)) = 1}
         IN  {Question(id, "Name the {seniority} Senator from {state}.",
                       [NoVars EXCEPT !.state = d[1], !.seniority = d[2]], difficulty,
                       <<officialName(M(d)[1])>>, EasyModes(difficulty), "text", Undefined)
              : d \in good, id \in makeId}
             \cup (IF draws \ good # {}
                   THEN stateSeniorityFrom(difficulty, sens, attempt + 1) ELSE {})

stateSeniority(difficulty, sens) == stateSeniorityFrom(difficulty, sens, 0)

\* the loop of statePartySeniority from iteration `attempt` on
RECURSIVE statePartySeniorityFrom(_, _)
statePartySeniorityFrom(sens, attempt) ==
    IF attempt >= StatePartySeniorityAttempts
    THEN {errorObject("ambiguous_answer",
                      "Could not enforce uniqueness for state+party+seniority in Hard.",
                      Undefined)}
    ELSE LET draws == pickRandom(uniqueStates(sens)) \X pickRandom(Parties)
                      \X pickRandom(Seniorities)
             M(d)  == getByStatePartySeniority(sens, d[1], d[2], d[3])
             good  == {d \in draws : Len(M(d)) = 1}
         IN  {Question(id, "Name the {party} {seniority} Senator from {state}.",
                       [NoVars EXCEPT !.party = d[2], !.seniority = d[3], !.state = d[1]],
                       "Hard", <<officialName(M(d)[1])>>, <<"full_name">>, "text",
                       Undefined)
              : d \in good, id \in makeId}
             \cup (IF draws \ good # {}
                   THEN statePartySeniorityFrom(sens, attempt + 1) ELSE {})

statePartySeniority(sens) == statePartySeniorityFrom(sens, 0)

partyOfPortrait(sens) ==
    UNION {
        IF ~s.def THEN {errorObject("data_missing", "No senator found.", Undefined)}
        ELSE IF ~s.val.portrait.def THEN {Thrown}
        ELSE {Question(id, "Which party does {name} belong to?",
                       [NoVars EXCEPT !.name = Some(officialName(s.val))], "Easy",
                       <<s.val.party>>, <<"full_name">>, "party_portrait",
                       Some(PortraitUrl(s.val.portrait.val))) : id \in makeId}
        : s \in pickRandom(sens)}

stateOfPortrait(sens) ==
    UNION {
        IF ~s.def THEN {errorObject("data_missing", "No senator found.", Undefined)}
        ELSE IF ~s.val.portrait.def THEN {Thrown}
        ELSE {Question(id, "Which state does {name} represent?",
                       [NoVars EXCEPT !.name = Some(officialName(s.val))], "Easy",
                       <<s.val.state>>, <<"full_name">>, "state_portrait",
                       Some(PortraitUrl(s.val.portrait.val))) : id \in makeId}
        : s \in pickRandom(sens)}

\* coin is Math.random() < 0.5, not drawn from rnd
partyOfRandom(difficulty, sens) ==
    UNION {
        IF ~s.def THEN {errorObject("data_missing", "No senator found.", Undefined)}
        ELSE IF ~s.val.portrait.def THEN {Thrown}
        ELSE {Question(id,
                       IF coin THEN "Which party does this senator belong to?"
                               ELSE "Which party does {name} belong to?",
                       IF coin THEN NoVars
                               ELSE [NoVars EXCEPT !.name = Some(officialName(s.val))],
                       "Hard", <<s.val.party>>, <<"full_name">>,
                       IF coin THEN "party_portrait_hard" ELSE "party_text_hard",
                       Some(PortraitUrl(s.val.portrait.val)))
              : id \in makeId, coin \in BOOLEAN}
        : s \in pickRandom(sens)}

stateOfRandom(difficulty, sens) ==
    UNION {
        IF ~s.def THEN {errorObject("data_missing", "No senator found.", Undefined)}
        ELSE IF ~s.val.portrait.def THEN {Thrown}
        ELSE {Question(id,
                       IF coin THEN "Which state does this senator represent?"
                               ELSE "Which state does {name} represent?",
                       IF coin THEN NoVars
                               ELSE [NoVars EXCEPT !.name = Some(officialName(s.val))],
                       "Hard", <<s.val.state>>, <<"full_name">>,
                       IF coin THEN "state_portrait_hard" ELSE "state_text_hard",
                       Some(PortraitUrl(s.val.portrait.val)))
              : id \in makeId, coin \in BOOLEAN}
        : s \in pickRandom(sens)}

tryTemplate(key, difficulty, sens) ==
    CASE key = "portrait_only" -> portraitOnly(difficulty, sens)
      [] key = "state_any" -> stateAny(sens)
      [] key = "state_party_any" -> statePartyAny(sens)
      [] key = "state_seniority" -> stateSeniority(difficulty, sens)
      [] key = "state_party_seniority" -> statePartySeniority(sens)
      [] key = "party_of_portrait" -> partyOfPortrait(sens)
      [] key = "state_of_portrait" -> stateOfPortrait(sens)
      [] key = "party_of_random" -> partyOfRandom(difficulty, sens)
      [] key = "state_of_random" -> stateOfRandom(difficulty, sens)
      [] OTHER -> {errorObject("unknown_template", "Unknown template key.", Some(key))}

\* the for loop giving up at the first template that fails
generateLoopAbort(try, allowed, k, log) ==
    UNION {
        IF q.kind = "throw"
        THEN {[allowed |-> allowed, log |-> log, result |-> q]}
        ELSE IF ~isError(q)
        THEN {[allowed |-> allowed, result |-> q,
               log |-> Append(log, <<allowed[k].key, "accepted">>)]}
        ELSE {[allowed |-> allowed,
               log |-> Append(log, <<allowed[k].key, "rejected">>),
               result |-> errorObject("unsolvable_template",
                   "No suitable template could be generated for the current dataset.",
                   Undefined)]}
        : q \in try[allowed[k].key]}

\* the for loop of generateQuestion from position k of the shuffled list on;
\* log holds the logValidation messages so far, as (key, "accepted" | "rejected"),
\* and try[key] the values this.tryTemplate(key, difficulty, senators, rnd) may return
RECURSIVE generateLoop(_, _, _, _)
generateLoop(try, allowed, k, log) ==
    IF k > Len(allowed)
    THEN {[allowed |-> allowed, log |-> log,
           result |-> errorObject("unsolvable_template",
               "No suitable template could be generated for the current dataset.",
               Undefined)]}
    ELSE UNION {
        IF q.kind = "throw"
        THEN {[allowed |-> allowed, log |-> log, result |-> q]}
        ELSE IF ~isError(q)
        THEN {[allowed |-> allowed, result |-> q,
               log |-> Append(log, <<allowed[k].key, "accepted">>)]}
        ELSE generateLoop(try, allowed, k + 1,
                          Append(log, <<allowed[k].key, "rejected">>))
        : q \in try[allowed[k].key]}

\* the calls generateQuestion(difficulty, senators, rnd) may make: the shuffled
\* list, the log and the value returned (or the exception thrown)
generateQuestion(difficulty, sens) ==
    LET tier == Templates(difficulty)
        try  == [key \in {tier[i].key : i \in 1..Len(tier)} |->
                    tryTemplate(key, difficulty, sens)]
    IN  UNION {generateLoop(try, allowed, 1, <<>>)
               : allowed \in shuffleInPlace(tier, Len(tier))}

-----------------------------------------------------------------------------
(* Validation *)

\* the verdict carrying the normalized input in place of the raw one
VerdictOfNormalized(question, userInput, is_correct, accepted_as, feedback) ==
    [kind |-> "verdict", question_id |-> question.id,
     user_input |-> normalizeName(userInput),
     is_correct |-> is_correct, accepted_as |-> accepted_as, feedback |-> feedback]

Verdict(question, userInput, is_correct, accepted_as, feedback) ==
    [kind |-> "verdict", question_id |-> question.id, user_input |-> userInput,
     is_correct |-> is_correct, accepted_as |-> accepted_as, feedback |-> feedback]

\* the feedback of a Hard rejection: the text around correct_answers[0]
HardFeedback(question) ==
    <<"Hard mode requires the full official name. Correct answer: '",
      IF Len(question.correct_answers) > 0 THEN Some(question.correct_answers[1])
                                           ELSE Undefined,
      "'.">>

\* correctNorms.includes(inputNorm)
exactMatch(question, userInput) ==
    oneOf(normalizeName(userInput),
          [i \in 1..Len(question.correct_answers) |->
              normalizeName(question.correct_answers[i])])

\* matchesByLast.length
matchesByLast(question, userInput) ==
    LET last == lastNameOf(normalizeName(userInput))
    IN  Len(SelectSeq(question.correct_answers, LAMBDA a : lastNameOf(a) = last))

\* the first loop of the Easy branch finds an answer
fuzzyFullName(question, userInput) ==
    \E i \in 1..Len(question.correct_answers) :
        withinMisspellingThreshold(normalizeName(userInput), question.correct_answers[i])

\* the second loop of the Easy branch finds an answer
fuzzyLastName(question, userInput) ==
    LET last == lastNameOf(normalizeName(userInput))
    IN  \E i \in 1..Len(question.correct_answers) :
            /\ withinMisspellingThreshold(last, lastNameOf(question.correct_answers[i]))
            /\ last # <<>>

\* the function ok of validateAnswer
ok(question, userInput, kind) ==
    Verdict(question, userInput, TRUE, kind, <<"Correct.">>)

\* validateAnswer, mode === "Hard"
validateHard(question, userInput) ==
    LET exact == exactMatch(question, userInput)
    IN  Verdict(question, userInput, exact, "full_name",
                IF exact THEN <<"Correct.">> ELSE HardFeedback(question))

\* the Easy branch with the two fuzzy loops ahead of the last-name rule
validateEasyFuzzyFirst(question, userInput) ==
    LET last == lastNameOf(normalizeName(userInput))
    IN  IF exactMatch(question, userInput)
        THEN ok(question, userInput, "full_name")
        ELSE IF fuzzyFullName(question, userInput)
        THEN ok(question, userInput, "misspelling_correction")
        ELSE IF fuzzyLastName(question, userInput)
        THEN ok(question, userInput, "misspelling_correction")
        ELSE IF matchesByLast(question, userInput) = 1 /\ last # <<>>
        THEN ok(question, userInput, "last_name")
        ELSE Verdict(question, userInput, FALSE, "full_name",
                     <<"Not quite. Easy accepts last names and mild misspellings.">>)

\* validateAnswer, every other mode
validateEasy(question, userInput) ==
    LET last == lastNameOf(normalizeName(userInput))
    IN  IF exactMatch(question, userInput)
        THEN ok(question, userInput, "full_name")
        ELSE IF matchesByLast(question, userInput) = 1 /\ last # <<>>
        THEN ok(question, userInput, "last_name")
        ELSE IF fuzzyFullName(question, userInput)
        THEN ok(question, userInput, "misspelling_correction")
        ELSE IF fuzzyLastName(question, userInput)
        THEN ok(question, userInput, "misspelling_correction")
        ELSE IF matchesByLast(question, userInput) > 1
        THEN Verdict(question, userInput, FALSE, "full_name",
                     <<"Ambiguous last name. Try the full name or include more detail.">>)
        ELSE Verdict(question, userInput, FALSE, "full_name",
                     <<"Not quite. Easy accepts last names and mild misspellings.">>)

\* validateAnswer with the Hard branch left out
validateAnswerNoHard(question, userInput) == validateEasy(question, userInput)

validateAnswer(question, userInput) ==
    IF question.difficulty = "Hard"
    THEN validateHard(question, userInput)
    ELSE validateEasy(question, userInput)

-----------------------------------------------------------------------------
(* The data and the inputs the specifications range over *)

JohnSmith == <<"J", "o", "h", "n", " ", "S", "m", "i", "t", "h">>
JaneSmith == <<"J", "a", "n", "e", " ", "S", "m", "i", "t", "h">>
Sanders == <<"S", "a", "n", "d", "e", "r", "s">>
AlLee == <<"A", "l", " ", "L", "e", "e">>
Ohio == <<"O", "h", "i", "o">>
Iowa == <<"I", "o", "w", "a">>

RawRecord(name, state, party, seniority, portrait, portrait_image) ==
    [name |-> name, state |-> state, party |-> party, seniority |-> seniority,
     portrait |-> portrait, portrait_image |-> portrait_image]

\* the entries senators.json is drawn from: a record with a local portrait, one
\* with no portrait and an unknown seniority, one with an unknown party and a
\* remote portrait, one whose portrait is under portrait_image, one with no name
RawPool ==
    <<RawRecord(Some(JohnSmith), Some(Ohio), Some(Democrat), Some(Senior),
                Some(<<"p", "1">>), Undefined),
      RawRecord(Some(JaneSmith), Some(Ohio), Some(Democrat), Some(<<"J", "r">>),
                Undefined, Undefined),
      RawRecord(Some(Sanders), Some(Iowa), Some(<<"G", "r", "e", "e", "n">>),
                Some(Senior), Some(<<"h", "t", "t", "p", ":", "x">>), Undefined),
      RawRecord(Some(AlLee), Some(Ohio), Some(Republican), Some(Senior),
                Undefined, Some(<<"p", "4">>)),
      RawRecord(Undefined, Some(Iowa), Some(Democrat), Some(Junior),
                Some(<<"p", "5">>), Undefined)>>

\* the most entries of senators.json
MaxRoster == 2

RECURSIVE PoolSeq(_, _)
PoolSeq(S, i) ==
    IF i > Len(RawPool) THEN <<>>
    ELSE (IF i \in S THEN <<RawPool[i]>> ELSE <<>>) \o PoolSeq(S, i + 1)

RawDatasets ==
    {PoolSeq(S, 1) : S \in {T \in SUBSET (1..Len(RawPool)) : Cardinality(T) <= MaxRoster}}

\* what the user types, already trimmed by submitCurrent and not empty
TypedInputs ==
    {<<"s", "m", "i", "t", "h">>,
     <<"J", "o", "h", "n", " ", "S", "m", "i", "t", "h">>,
     <<"j", "o", "n", " ", "s", "m", "i", "t", "h">>,
     <<"D", "e", "m", "o", "c", "r", "t">>,
     <<"o", "h", "i", "o">>,
     <<"t", "h", "e", " ", "O", "h", "i", "o">>,
     <<"S", "a", "n", "d", "e", "r", "s">>,
     <<"x", "y", "z">>}

None == [kind |-> "none"]

\* the variables of the other specifications, at rest
SesIdle ==
    /\ s_state = None /\ sg_run = None /\ u_locked = FALSE /\ u_screen = "start"
    /\ u_subs = <<>> /\ u_results = None /\ now = 0

StrIdle == p_a = <<>> /\ p_b = <<>> /\ p_out = None

RngIdle == r_rng = None /\ r_first = None /\ r_second = None

MapIdle ==
    /\ m_mode = "" /\ m_data = None /\ m_targets = <<>> /\ m_target = None
    /\ m_streak = 0 /\ m_highScore = 0 /\ m_stored = None /\ m_last = FALSE
    /\ m_hasGuessed = FALSE /\ m_layers = None /\ m_panel = FALSE
    /\ m_overlay = TRUE /\ m_guesses = <<>> /\ m_clicks = 0

GenIdle ==
    /\ raw = <<>> /\ senators = <<>>
    /\ g_difficulty = "" /\ g_allowed = <<>> /\ g_log = <<>> /\ g_result = None

ValIdle ==
    /\ v_question = None /\ v_input = <<>> /\ v_verdict = None
    /\ w_target = <<>> /\ w_result = FALSE

-----------------------------------------------------------------------------
(* SpecGen: the roster is loaded, one question is generated, one input is    *)
(* graded against it.                                                        *)

InitGen ==
    /\ phase = "boot"
    /\ raw \in RawDatasets
    /\ senators = <<>>
    /\ g_difficulty = "" /\ g_allowed = <<>> /\ g_log = <<>> /\ g_result = None
    /\ v_question = None /\ v_input = <<>> /\ v_verdict = None
    /\ w_target = <<>> /\ w_result = FALSE
    /\ SesIdle /\ StrIdle /\ RngIdle /\ MapIdle

\* UI.init: GameState.data.senators = await loadSenators(); the second case is
\* loadSenators' catch (the fetch or the parse failed); the response is a local
\* of loadSenators and is gone when it returns
UIInit ==
    /\ phase = "boot"
    /\ \/ senators' = loadSenators(raw)
       \/ senators' = <<>>
    /\ raw' = <<>>
    /\ phase' = "ready"
    /\ UNCHANGED <<g_difficulty, g_allowed, g_log, g_result>>
    /\ UNCHANGED valVars
    /\ UNCHANGED extVars

\* one call Generator.generateQuestion(mode, GameState.data.senators)
GenerateQuestion ==
    /\ phase = "ready"
    /\ \E difficulty \in {"Easy", "Hard"} :
         \E call \in generateQuestion(difficulty, senators) :
            /\ g_difficulty' = difficulty
            /\ g_allowed' = call.allowed
            /\ g_log' = call.log
            /\ g_result' = call.result
    /\ phase' = "generated"
    /\ UNCHANGED <<raw, senators>>
    /\ UNCHANGED valVars
    /\ UNCHANGED extVars

\* generateQuestion returns to its caller: its locals are gone, the value
\* returned stays
Returned ==
    /\ phase = "generated"
    /\ phase' = "returned"
    /\ g_allowed' = <<>> /\ g_log' = <<>>
    /\ UNCHANGED <<raw, senators, g_difficulty, g_result>>
    /\ UNCHANGED valVars
    /\ UNCHANGED extVars

\* one call Validator.validateAnswer(q, raw) on the generated question
ValidateGenerated ==
    /\ phase = "returned"
    /\ g_result.kind = "question"
    /\ \E input \in TypedInputs :
         /\ v_question' = g_result
         /\ v_input' = input
         /\ v_verdict' = validateAnswer(g_result, input)
    /\ phase' = "validated"
    /\ UNCHANGED <<w_target, w_result>>
    /\ UNCHANGED genVars
    /\ UNCHANGED extVars

NextGen == UIInit \/ GenerateQuestion \/ Returned \/ ValidateGenerated

SpecGen == InitGen /\ [][NextGen]_vars

-----------------------------------------------------------------------------
(* SpecVal: validateAnswer and withinMisspellingThreshold as functions of     *)
(* their arguments.                                                          *)

\* the answers a question's correct_answers are drawn from
AnswerPool == {JohnSmith, JaneSmith, Sanders, AlLee, Ohio}

\* the most correct answers of a question
MaxAnswers == 2

RECURSIVE SeqsUpTo(_, _)
SeqsUpTo(S, n) ==
    IF n = 0 THEN {<<>>}
    ELSE LET shorter == SeqsUpTo(S, n - 1)
         IN  shorter \cup {Append(q, x) : q \in shorter, x \in S}

ValQuestions ==
    {Question(1, "Name a senator from {state}.", NoVars, difficulty, answers,
              EasyModes(difficulty), "text", Undefined)
     : difficulty \in {"Easy", "Hard"}, answers \in SeqsUpTo(AnswerPool, MaxAnswers) \ {<<>>}}

ValInputs ==
    {<<"s", "m", "i", "t", "h">>,
     <<"J", "o", "h", "n", " ", "S", "m", "i", "t", "h">>,
     <<" ", " ", "J", "O", "H", "N", " ", "\t", "s", "m", "i", "t", "h", ".">>,
     <<"j", "o", "n", " ", "s", "m", "i", "t", "h">>,
     <<"x", " ", "s", "m", "i", "t", "h">>,
     <<"S", "m", "y", "t", "h">>,
     <<"S", "a", "n", "d", "r", "e", "s">>,
     <<"S", "n", "d", "r", "s">>,
     <<"S", "n", "d", "r">>,
     <<"L", "e", "e">>,
     <<"A", "l", " ", "L", "e">>,
     <<"A", "l", " ", "L", "e", "e", "x", "x">>,
     <<"o", "h", "i", "o">>,
     <<"O", "h">>,
     <<"O", "h", "i", "E_ACUTE">>,
     <<>>,
     <<" ">>,
     <<"-">>}

InitVal ==
    /\ phase = "input"
    /\ raw = <<>> /\ senators = <<>>
    /\ g_difficulty = "" /\ g_allowed = <<>> /\ g_log = <<>> /\ g_result = None
    /\ v_question \in ValQuestions
    /\ v_input \in ValInputs
    /\ v_verdict = None
    /\ w_target = <<>> /\ w_result = FALSE
    /\ SesIdle /\ StrIdle /\ RngIdle /\ MapIdle

\* one call Validator.validateAnswer(question, userInput)
ValidateAnswer ==
    /\ phase = "input"
    /\ v_verdict' = validateAnswer(v_question, v_input)
    /\ phase' = "validated"
    /\ UNCHANGED <<v_question, v_input, w_target, w_result>>
    /\ UNCHANGED genVars
    /\ UNCHANGED extVars

\* one call withinMisspellingThreshold(input, target), the target one of the
\* question's answers as in validateAnswer's first loop
WithinThreshold ==
    /\ phase = "input"
    /\ \E i \in 1..Len(v_question.correct_answers) :
         /\ w_target' = v_question.correct_answers[i]
         /\ w_result' = withinMisspellingThreshold(v_input, v_question.correct_answers[i])
    /\ phase' = "within"
    /\ UNCHANGED <<v_question, v_input, v_verdict>>
    /\ UNCHANGED genVars
    /\ UNCHANGED extVars

NextVal == ValidateAnswer \/ WithinThreshold

SpecVal == InitVal /\ [][NextVal]_vars

-----------------------------------------------------------------------------
(* Properties of the Validator, checked under SpecVal *)

Sandres == <<"S", "a", "n", "d", "r", "e", "s">>
Sndrs == <<"S", "n", "d", "r", "s">>
Sndr == <<"S", "n", "d", "r">>
SmithTyped == <<"s", "m", "i", "t", "h">>

\* the number of the question's correct answers whose last name is the input's
SharedLastNames(question, input) ==
    Cardinality({i \in 1..Len(question.correct_answers) :
                    lastNameOf(question.correct_answers[i]) = lastNameOf(input)})

\* the normalized input equals a normalized correct answer
IsExact(question, input) ==
    \E i \in 1..Len(question.correct_answers) :
        normalizeName(input) = normalizeName(question.correct_answers[i])

AmbiguousFeedback ==
    <<"Ambiguous last name. Try the full name or include more detail.">>

\* C1: on an Easy question, an input that is no exact match and whose last name
\* is the last name of more than one correct answer is rejected, with the
\* ambiguity feedback.
C1_AmbiguousLastNameRejected ==
    (/\ phase = "validated"
     /\ v_question.difficulty = "Easy"
     /\ ~IsExact(v_question, v_input)
     /\ SharedLastNames(v_question, v_input) > 1)
    => (~v_verdict.is_correct /\ v_verdict.feedback = AmbiguousFeedback)

\* C2, as stated: with the single correct answer "Sanders" on Easy, "Sandres" is
\* accepted and "Sndrs" is rejected.
C2_SndrsRejected ==
    (/\ phase = "validated"
     /\ v_question.difficulty = "Easy"
     /\ v_question.correct_answers = <<Sanders>>)
    => /\ (v_input = Sandres => v_verdict.is_correct)
       /\ (v_input = Sndrs => ~v_verdict.is_correct)

\* C2, amended: with the single correct answer "Sanders" on Easy, "Sandres" and
\* "Sndrs" (both two edits from "sanders") are accepted as misspellings, and
\* "Sndr" (three edits) is rejected.
C2_SandersFuzzy ==
    (/\ phase = "validated"
     /\ v_question.difficulty = "Easy"
     /\ v_question.correct_answers = <<Sanders>>)
    => /\ (v_input \in {Sandres, Sndrs}
             => /\ v_verdict.is_correct
                /\ v_verdict.accepted_as = "misspelling_correction")
       /\ (v_input = Sndr => ~v_verdict.is_correct)

C2_Witness ==
    /\ phase = "validated"
    /\ v_question.difficulty = "Easy"
    /\ v_question.correct_answers = <<Sanders>>
    /\ v_input = Sndrs
    /\ v_verdict.is_correct

\* the words of a normalized name
Words(name) == SplitSpace(normalizeName(name), 1, <<>>)

\* C5: on a Hard question the verdict is correct exactly when the normalized
\* input equals a normalized correct answer; a correct answer typed verbatim is
\* accepted, and the last name alone of a correct answer of several words is
\* rejected unless it is itself a full normalized answer.
C5_HardExactOnly ==
    (phase = "validated" /\ v_question.difficulty = "Hard")
    => /\ v_verdict.is_correct <=> IsExact(v_question, v_input)
       /\ v_verdict.accepted_as = "full_name"
       /\ (\E i \in 1..Len(v_question.correct_answers) :
              v_input = v_question.correct_answers[i]) => v_verdict.is_correct
       /\ (/\ \E i \in 1..Len(v_question.correct_answers) :
                 /\ Len(Words(v_question.correct_answers[i])) > 1
                 /\ normalizeName(v_input) = lastNameOf(v_question.correct_answers[i])
           /\ ~IsExact(v_question, v_input))
          => ~v_verdict.is_correct

C5_Witness ==
    /\ phase = "validated"
    /\ v_question.difficulty = "Hard"
    /\ v_question.correct_answers = <<JohnSmith, JaneSmith>>
    /\ v_input = SmithTyped
    /\ ~v_verdict.is_correct

\* C6: on an Easy question the first rule that matches decides: an exact
\* normalized match is accepted as full_name; failing that, a non-empty last
\* name that is the last name of exactly one correct answer is accepted as
\* last_name; misspelling_correction is given only when both have failed.
C6_EasyPriority ==
    (phase = "validated" /\ v_question.difficulty = "Easy")
    => LET exact  == IsExact(v_question, v_input)
           byLast == /\ lastNameOf(v_input) # <<>>
                     /\ SharedLastNames(v_question, v_input) = 1
       IN  /\ exact => (v_verdict.is_correct /\ v_verdict.accepted_as = "full_name")
           /\ (~exact /\ byLast)
                => (v_verdict.is_correct /\ v_verdict.accepted_as = "last_name")
           /\ v_verdict.accepted_as = "misspelling_correction"
                => (v_verdict.is_correct /\ ~exact /\ ~byLast)

C6_Witness ==
    /\ phase = "validated"
    /\ v_question.difficulty = "Easy"
    /\ v_question.correct_answers = <<JohnSmith>>
    /\ v_input = SmithTyped
    /\ v_verdict.is_correct
    /\ v_verdict.accepted_as = "last_name"

\* the strings one insertion, deletion or substitution away from a, the
\* characters written taken from C
OneEdit(a, C) ==
    {SubSeq(a, 1, i - 1) \o SubSeq(a, i + 1, Len(a)) : i \in 1..Len(a)}
    \cup {[a EXCEPT ![i] = c] : i \in 1..Len(a), c \in C}
    \cup {SubSeq(a, 1, i) \o <<c>> \o SubSeq(a, i + 1, Len(a)) : i \in 0..Len(a), c \in C}

\* b can be made from a by at most k single-character edits
RECURSIVE WithinEdits(_, _, _)
WithinEdits(a, b, k) ==
    \/ a = b
    \/ /\ k > 0
       /\ Len(a) - Len(b) <= k /\ Len(b) - Len(a) <= k
       /\ \E c \in OneEdit(a, {b[i] : i \in 1..Len(b)}) : WithinEdits(c, b, k - 1)

\* C7: withinMisspellingThreshold(input, target) holds exactly when the
\* normalized target can be made from the normalized input by at most 2 edits
\* if the normalized target has 7 characters or more, and by at most 1 edit
\* otherwise, whatever the input's length.
C7_ThresholdByTargetLength ==
    phase = "within"
    => LET t == normalizeName(w_target)
           i == normalizeName(v_input)
       IN  w_result <=> WithinEdits(i, t, IF Len(t) >= 7 THEN 2 ELSE 1)

\* a short input two edits from a long target is within the threshold
C7_Witness ==
    /\ phase = "within"
    /\ w_target = Sanders
    /\ v_input = Sndrs
    /\ w_result

-----------------------------------------------------------------------------
(* Properties of the Generator, checked under SpecGen *)

\* the set of a question's allowed_answer_modes
ModesOf(question) ==
    {question.allowed_answer_modes[i] : i \in 1..Len(question.allowed_answer_modes)}

\* C3: a question generated for Easy permits last-name and misspelling matching
\* besides the exact full name, and a question generated for Hard permits
\* full_name alone.
C3_ModesByTier ==
    (phase = "generated" /\ g_result.kind = "question")
    => /\ g_difficulty = "Easy"
            => {"full_name", "last_name", "misspelling_correction"} \subseteq ModesOf(g_result)
       /\ g_difficulty = "Hard" => ModesOf(g_result) = {"full_name"}

\* C4: whenever a generated question's input is graded correct, the channel it
\* is accepted as is one of that question's allowed_answer_modes.
C4_AcceptedChannelAllowed ==
    (phase = "validated" /\ v_verdict.is_correct)
    => v_verdict.accepted_as \in ModesOf(v_question)

\* the template texts of the questions of each kind
TextsOf(key) ==
    CASE key = "portrait_only" -> {"Who is this senator?"}
      [] key = "state_any" -> {"Name a senator from {state}."}
      [] key = "state_party_any" -> {"Name a {party} senator from {state}."}
      [] key = "state_seniority" -> {"Name the {seniority} Senator from {state}."}
      [] key = "state_party_seniority" ->
            {"Name the {party} {seniority} Senator from {state}."}
      [] key = "party_of_portrait" -> {"Which party does {name} belong to?"}
      [] key = "state_of_portrait" -> {"Which state does {name} represent?"}
      [] key = "party_of_random" -> {"Which party does this senator belong to?",
                                     "Which party does {name} belong to?"}
      [] key = "state_of_random" -> {"Which state does this senator represent?",
                                     "Which state does {name} represent?"}

\* C8: generateQuestion tries the kinds of the tier in the shuffled order, which
\* is a permutation of the tier's list, each at most once; every kind tried
\* before the last failed; a Question returned is of the last kind tried, and a
\* failure is returned only after every kind has failed.
C8_ShuffledOrderFirstSuccess ==
    phase = "generated"
    => LET tier == Templates(g_difficulty)
           n    == Len(g_log)
       IN  /\ Len(g_allowed) = Len(tier)
           /\ \A i \in 1..Len(tier) :
                Cardinality({j \in 1..Len(g_allowed) : g_allowed[j] = tier[i]}) = 1
           /\ n <= Len(g_allowed)
           /\ \A i \in 1..n : g_log[i][1] = g_allowed[i].key
           /\ \A i \in 1..(n - 1) : g_log[i][2] = "rejected"
           /\ g_result.kind = "question"
                => /\ n >= 1
                   /\ g_log[n][2] = "accepted"
                   /\ g_result.template \in TextsOf(g_log[n][1])
           /\ g_result.kind = "error"
                => /\ n = Len(g_allowed)
                   /\ \A i \in 1..n : g_log[i][2] = "rejected"

\* two kinds fail and the third in the shuffled order gives the question
C8_Witness ==
    /\ phase = "generated"
    /\ g_result.kind = "question"
    /\ Len(g_log) = 3
    /\ g_log[3] = <<g_allowed[3].key, "accepted">>

\* C9: for every roster the loader yields, the empty one and those with
\* entities that have no portrait included, generateQuestion returns a Question
\* or a failure and throws nothing; the failure is unsolvable_template, and it
\* is what is returned when every kind has failed.
C9_NeverThrows ==
    phase = "generated"
    => /\ g_result.kind \in {"question", "error"}
       /\ g_result.kind = "error" => g_result.error_type = "unsolvable_template"
       /\ (/\ Len(g_log) = Len(g_allowed)
           /\ \A i \in 1..Len(g_log) : g_log[i][2] = "rejected")
          => (g_result.kind = "error" /\ g_result.error_type = "unsolvable_template")

\* a question about an entity with no portrait, by a filler that reads the
\* portrait
C9_Witness ==
    /\ phase = "generated"
    /\ g_result.kind = "question"
    /\ g_result.portrait_image = Some(PORTRAIT_BASE)
    /\ \E i \in 1..Len(senators) : senators[i].portrait = Some(<<>>)

\* the key of the template that gave the question
AcceptedKey == g_log[Len(g_log)][1]

\* the roster entities matching the filled state and seniority and, for
\* state_party_seniority, the filled party
FilledMatches ==
    LET fv == g_result.filled_variables
    IN  {i \in 1..Len(senators) :
            /\ senators[i].state = fv.state.val
            /\ senators[i].seniority = fv.seniority.val
            /\ AcceptedKey = "state_party_seniority" => senators[i].party = fv.party.val}

\* C10: a Question of stateSeniority or of statePartySeniority has its filled
\* (state, seniority), respectively (state, party, seniority), match exactly
\* one roster entity, and its correct_answers is that entity's name alone.
C10_UniqueMatch ==
    (/\ phase = "generated"
     /\ g_result.kind = "question"
     /\ AcceptedKey \in {"state_seniority", "state_party_seniority"})
    => LET fv == g_result.filled_variables
       IN  /\ fv.state.def /\ fv.seniority.def
           /\ AcceptedKey = "state_party_seniority" => fv.party.def
           /\ Cardinality(FilledMatches) = 1
           /\ \A i \in FilledMatches : g_result.correct_answers = <<senators[i].name>>

\* a statePartySeniority question on a roster where two entities share the
\* filled state and seniority and the party tells them apart
C10_Witness ==
    /\ phase = "generated"
    /\ g_result.kind = "question"
    /\ AcceptedKey = "state_party_seniority"
    /\ Cardinality({i \in 1..Len(senators) :
            /\ senators[i].state = g_result.filled_variables.state.val
            /\ senators[i].seniority = g_result.filled_variables.seniority.val}) = 2

\* the roster entities of the filled state and, for state_party_any, of the
\* filled party, in roster order
FilledGroup ==
    LET fv == g_result.filled_variables
    IN  SelectSeq(senators, LAMBDA s :
            /\ s.state = fv.state.val
            /\ AcceptedKey = "state_party_any" => s.party = fv.party.val)

\* C11: a Question of stateAny has as correct_answers the names of all the
\* roster entities of the filled state, and a Question of statePartyAny the
\* names of all the roster entities of the filled state and party; the list
\* is not empty and names no entity outside the match.
C11_CompleteAnswerSet ==
    (/\ phase = "generated"
     /\ g_result.kind = "question"
     /\ AcceptedKey \in {"state_any", "state_party_any"})
    => LET fv == g_result.filled_variables
       IN  /\ fv.state.def
           /\ AcceptedKey = "state_party_any" => fv.party.def
           /\ Len(FilledGroup) >= 1
           /\ g_result.correct_answers =
                  [i \in 1..Len(FilledGroup) |-> FilledGroup[i].name]

\* a stateAny question on a state with two members
C11_Witness ==
    /\ phase = "generated"
    /\ g_result.kind = "question"
    /\ AcceptedKey = "state_any"
    /\ Len(g_result.correct_answers) = 2

\* the roster entity a party_of_portrait or state_of_portrait question names
\* has a portrait
NamedHasPortrait ==
    \E i \in 1..Len(senators) :
        /\ senators[i].name = g_result.filled_variables.name.val
        /\ Truthy(senators[i].portrait)

\* C12: every Question of partyOfPortrait or stateOfPortrait is about an
\* entity that has a portrait, and on a roster where no entity has a portrait
\* the two templates give no Question.
C12_PortraitEntityOnly ==
    (/\ phase = "generated"
     /\ g_result.kind = "question"
     /\ AcceptedKey \in {"party_of_portrait", "state_of_portrait"})
    => NamedHasPortrait

-----------------------------------------------------------------------------
(* GameState: the session.  A timestamp is the clock reading it was taken   *)
(* at; toISOString and new Date(iso).getTime() give back the same instant.  *)

\* UI.poolSize, the questions of a session (DEFAULT_QUESTION_COUNT in the code)
PoolSize == 2

\* the last instant the clock is read at
MaxClock == 2

\* the instants the clock may show when it is read after instant t
ClockFrom(t) == t..(IF t > MaxClock THEN t ELSE MaxClock)

create(difficulty, questions, t) ==
    [difficulty |-> difficulty, questions |-> questions, current_index |-> 0,
     answers |-> <<>>, score |-> 0, start_time |-> t, end_time |-> Undefined,
     completed |-> FALSE]

\* this.state?.questions?.[this.state.current_index] || null
currentQuestion(state) ==
    IF state = None THEN Undefined
    ELSE IF state.current_index < Len(state.questions)
         THEN Some(state.questions[state.current_index + 1])
         ELSE Undefined

\* recordAnswer; t is the clock reading of new Date(), taken when the session
\* completes
recordAnswer(state, userAnswer, t) ==
    LET idx  == state.current_index + 1
        done == idx >= Len(state.questions)
    IN  [state EXCEPT !.answers = Append(@, userAnswer),
                      !.score = IF userAnswer.is_correct THEN @ + 1 ELSE @,
                      !.current_index = idx,
                      !.completed = IF done THEN TRUE ELSE @,
                      !.end_time = IF done THEN Some(t) ELSE @]

\* the decimal digits of n
RECURSIVE DecimalString(_)
DecimalString(n) ==
    IF n < 10 THEN <<n>> ELSE Append(DecimalString(n \div 10), n % 10)

\* String.prototype.padStart(2, "0")
PadStart2(str) == IF Len(str) < 2 THEN <<0>> \o str ELSE str

\* formatDuration(ms): the characters of MM:SS, the digits as numbers
formatDuration(ms) ==
    LET floored   == ms \div 1000
        totalSecs == IF floored < 0 THEN 0 ELSE floored
    IN  PadStart2(DecimalString(totalSecs \div 60)) \o <<":">>
        \o PadStart2(DecimalString(totalSecs % 60))

\* Math.round(num / den), for den > 0 and num >= 0: the nearest integer, a
\* half rounded up; 0 / 0 is NaN and Math.round(NaN) is NaN
MathRound(num, den) ==
    IF den = 0 THEN "NaN" ELSE (2 * num + den) \div (2 * den)

\* the clock is read in units of 30 s
Millis(t) == t * 30000

\* toResults; t is the clock reading of new Date(), used while end_time is null
toResults(state, t) ==
    LET total     == Len(state.questions)
        correct   == Len(SelectSeq(state.answers, LAMBDA a : a.is_correct))
        incorrect == total - correct
        endTime   == IF state.end_time.def THEN state.end_time.val ELSE t
    IN  [total_questions |-> total,
         correct_answers |-> correct,
         incorrect_answers |-> incorrect,
         score |-> MathRound(correct * 100, total),
         time_taken |-> formatDuration(Millis(endTime) - Millis(state.start_time)),
         answers_detail |-> state.answers]

-----------------------------------------------------------------------------
(* UI.startGame *)

\* the while loop of startGame from one test of its condition on; res holds
\* the values Generator.generateQuestion(this.mode, senators) may return
RECURSIVE poolLoop(_, _, _, _)
poolLoop(res, questions, attempts, calls) ==
    IF ~(Len(questions) < PoolSize /\ attempts < PoolSize * 5)
    THEN {[questions |-> questions, attempts |-> attempts, calls |-> calls,
           thrown |-> FALSE]}
    ELSE UNION {
        IF q.kind = "throw"
        THEN {[questions |-> questions, attempts |-> attempts + 1,
               calls |-> calls + 1, thrown |-> TRUE]}
        ELSE IF ~isError(q)
        THEN poolLoop(res, Append(questions, q), attempts + 1, calls + 1)
        ELSE UNION {
            IF retry.kind = "throw"
            THEN {[questions |-> questions, attempts |-> attempts + 1,
                   calls |-> calls + 2, thrown |-> TRUE]}
            ELSE IF ~isError(retry)
            THEN poolLoop(res, Append(questions, retry), attempts + 1, calls + 2)
            ELSE poolLoop(res, questions, attempts + 1, calls + 2)
            : retry \in res}
        : q \in res}

\* startGame creating the session whatever the number of questions
startGameAlwaysCreate(mode, sens, state, screen, t) ==
    LET thisMode == IF mode = "Hard" THEN "Hard" ELSE "Easy"
        res      == {c.result : c \in generateQuestion(thisMode, sens)}
    IN  {[run    |-> [mode |-> thisMode, questions |-> r.questions,
                      attempts |-> r.attempts, calls |-> r.calls,
                      thrown |-> r.thrown],
          state  |-> create(thisMode, r.questions, t),
          screen |-> "quiz"]
         : r \in poolLoop(res, <<>>, 0, 0)}

\* the runs of startGame(mode): the loop's outcome, GameState.state and the
\* screen shown when it returns (or throws); state and screen are their values
\* at the call, t the clock reading of GameState.create
startGame(mode, sens, state, screen, t) ==
    LET thisMode == IF mode = "Hard" THEN "Hard" ELSE "Easy"
        res      == {c.result : c \in generateQuestion(thisMode, sens)}
    IN  {[run    |-> [mode |-> thisMode, questions |-> r.questions,
                      attempts |-> r.attempts, calls |-> r.calls,
                      thrown |-> r.thrown],
          state  |-> IF r.thrown \/ Len(r.questions) < PoolSize
                     THEN state ELSE create(thisMode, r.questions, t),
          screen |-> IF r.thrown \/ Len(r.questions) < PoolSize
                     THEN screen ELSE "quiz"]
         : r \in poolLoop(res, <<>>, 0, 0)}

-----------------------------------------------------------------------------
(* SpecStart: the roster is loaded and a mode button is clicked.             *)

\* senators.json with one entry at most
StartDatasets ==
    {<<>>} \cup {<<RawPool[i]>> : i \in 1..Len(RawPool)}

\* the data-mode attributes of the mode buttons
ModeAttributes == {"Easy", "Hard", "Expert"}

InitStart ==
    /\ phase = "boot"
    /\ raw \in StartDatasets
    /\ senators = <<>>
    /\ g_difficulty = "" /\ g_allowed = <<>> /\ g_log = <<>> /\ g_result = None
    /\ ValIdle /\ SesIdle /\ StrIdle /\ RngIdle /\ MapIdle

\* a click on a mode button of the start screen: UI.startGame(mode)
StartGame ==
    /\ phase = "ready"
    /\ u_screen = "start"
    /\ \E mode \in ModeAttributes, t \in ClockFrom(now) :
         \E r \in startGame(mode, senators, s_state, u_screen, t) :
            /\ sg_run' = r.run
            /\ s_state' = r.state
            /\ u_screen' = r.screen
            /\ now' = IF r.state = s_state THEN now ELSE t
    /\ UNCHANGED <<phase, genValVars, u_locked, u_subs, u_results>>
    /\ UNCHANGED <<strVars, rngVars, mapVars>>

NextStart == UIInit \/ StartGame

SpecStart == InitStart /\ [][NextStart]_vars

\* C15: startGame's loop ends: it makes at most 5 * poolSize iterations and at
\* most two generateQuestion calls in each, and adds at most one question per
\* iteration; it ends with exactly poolSize questions and a session created
\* over them, or with fewer than poolSize questions and GameState.state left
\* as it was (here: no session).
C15_PoolAssemblyBounded ==
    sg_run # None
    => /\ ~sg_run.thrown
       /\ sg_run.attempts <= PoolSize * 5
       /\ sg_run.calls <= 2 * sg_run.attempts
       /\ Len(sg_run.questions) <= sg_run.attempts
       /\ Len(sg_run.questions) <= PoolSize
       /\ \A i \in 1..Len(sg_run.questions) : sg_run.questions[i].kind = "question"
       /\ \/ /\ Len(sg_run.questions) = PoolSize
             /\ s_state # None
             /\ s_state.questions = sg_run.questions
             /\ s_state.difficulty = sg_run.mode
             /\ s_state.current_index = 0 /\ ~s_state.completed
             /\ u_screen = "quiz"
          \/ /\ Len(sg_run.questions) < PoolSize
             /\ sg_run.attempts = PoolSize * 5
             /\ s_state = None
             /\ u_screen = "start"

\* the loop gives up on the empty roster after every allowed iteration, two
\* calls in each
C15_Witness ==
    /\ sg_run # None
    /\ senators = <<>>
    /\ sg_run.attempts = PoolSize * 5
    /\ sg_run.calls = 2 * PoolSize * 5
    /\ s_state = None

\* a full pool is assembled and the session is created over it
C15_WitnessFull ==
    /\ sg_run # None
    /\ Len(sg_run.questions) = PoolSize
    /\ s_state # None

-----------------------------------------------------------------------------
(* UI.submitCurrent.  A submission is the closure one call of submitCurrent  *)
(* leaves behind: its verdict ua, the .correct-reveal element of its block   *)
(* (none, shown, fading once it has the class fade-out, removed), its timers *)
(* revealTimer, advanceTimer and the fast-fade timer of doAdvance, and its   *)
(* one-shot keydown listener on window.  M is the state the closures work    *)
(* on: [state, locked, screen, subs, results, now].                          *)

Submission(ua) ==
    [ua |-> ua,
     reveal |-> IF ua.is_correct THEN "none" ELSE "shown",
     revealTimer |-> ~ua.is_correct,
     advanceTimer |-> TRUE,
     fastTimer |-> FALSE,
     listener |-> TRUE]

\* a submission that can still run: a timer is pending or the listener is
\* registered
Alive(c) == c.revealTimer \/ c.advanceTimer \/ c.fastTimer \/ c.listener

\* M with the submissions nothing refers to any more dropped
Collect(M) == [M EXCEPT !.subs = SelectSeq(@, Alive)]

\* UI.showResults
showResults(M) ==
    [M EXCEPT !.results = toResults(M.state, M.now), !.screen = "results"]

\* finishAdvance of submission i; the clock is read when the session completes
finishAdvance(M, i) ==
    LET c        == M.subs[i]
        cleaned  == [c EXCEPT !.reveal = IF @ \in {"shown", "fading"} THEN "removed" ELSE @]
        complete == M.state.current_index + 1 >= Len(M.state.questions)
    IN  {LET recorded == [M EXCEPT !.subs[i] = cleaned,
                                   !.state = recordAnswer(M.state, c.ua, t),
                                   !.now = IF complete THEN t ELSE @,
                                   !.locked = FALSE]
         IN  IF recorded.state.completed THEN showResults(recorded) ELSE recorded
         : t \in IF complete THEN ClockFrom(M.now) ELSE {M.now}}

\* doAdvance starting the fast fade without scheduling finishAdvance
doAdvanceNoFastTimer(M, i) ==
    LET cleared == [M EXCEPT !.subs[i].revealTimer = FALSE,
                             !.subs[i].advanceTimer = FALSE]
    IN  IF M.subs[i].reveal = "shown"
        THEN {[cleared EXCEPT !.subs[i].reveal = "fading"]}
        ELSE finishAdvance(cleared, i)

\* doAdvance of submission i
doAdvance(M, i) ==
    LET cleared == [M EXCEPT !.subs[i].revealTimer = FALSE,
                             !.subs[i].advanceTimer = FALSE]
    IN  IF M.subs[i].reveal = "shown"
        THEN {[cleared EXCEPT !.subs[i].reveal = "fading", !.subs[i].fastTimer = TRUE]}
        ELSE finishAdvance(cleared, i)

\* a keydown event on window: the listeners registered at the event run in the
\* order of their registration, each is removed as it is invoked, and only
\* Enter makes one call doAdvance; i is the next submission to look at
RECURSIVE keydown(_, _, _)
keydown(M, key, i) ==
    IF i > Len(M.subs) THEN {M}
    ELSE IF ~M.subs[i].listener THEN keydown(M, key, i + 1)
    ELSE LET removed == [M EXCEPT !.subs[i].listener = FALSE]
         IN  IF key = "Enter"
             THEN UNION {keydown(N, key, i + 1) : N \in doAdvance(removed, i)}
             ELSE keydown(removed, key, i + 1)

\* submitCurrent with inputEl.value = value; the question block is mounted
\* whenever a current question exists
submitCurrent(M, value) ==
    LET q    == currentQuestion(M.state)
        raw1 == Trim(value)
    IN  IF M.locked THEN M
        ELSE IF ~q.def THEN M
        ELSE IF raw1 = <<>> THEN M
        ELSE [M EXCEPT !.locked = TRUE,
                       !.subs = Append(@, Submission(validateAnswer(q.val, raw1)))]

-----------------------------------------------------------------------------
(* SpecSession: one session, from GameState.create to the results screen and *)
(* after, under the submit events, the timers and the keys pressed.          *)

\* the roster of the session
SessionRoster == loadSenators(<<RawPool[1]>>)

\* the questions the pool of the session is drawn from: two kinds of each tier
SessionQuestions(difficulty) ==
    {q \in stateSeniority(difficulty, SessionRoster)
            \cup (IF difficulty = "Easy" THEN stateOfPortrait(SessionRoster)
                                         ELSE portraitOnly(difficulty, SessionRoster))
        : ~isError(q)}

RECURSIVE SeqsOfLen(_, _)
SeqsOfLen(S, n) ==
    IF n = 0 THEN {<<>>}
    ELSE {Append(q, x) : q \in SeqsOfLen(S, n - 1), x \in S}

\* inputEl.value at a submit event
SessionInputs == {JohnSmith, <<"x">>, <<" ">>}

\* the keys of a keydown event
Keys == {"Enter", "a"}

\* the state the closures work on
UIState ==
    [state |-> s_state, locked |-> u_locked, screen |-> u_screen, subs |-> u_subs,
     results |-> u_results, now |-> now]

\* the state a handler leaves
Leaves(M) ==
    LET N == Collect(M)
    IN  /\ s_state' = N.state
        /\ u_locked' = N.locked
        /\ u_screen' = N.screen
        /\ u_subs' = N.subs
        /\ u_results' = N.results
        /\ now' = N.now

SessionRest == <<phase, genValVars, sg_run, strVars, rngVars, mapVars>>

\* startGame has created the session and shown the quiz screen
InitSession ==
    /\ phase = "session"
    /\ GenIdle /\ ValIdle /\ StrIdle /\ RngIdle /\ MapIdle
    /\ sg_run = None
    /\ \E difficulty \in {"Easy", "Hard"} :
         \E questions \in SeqsOfLen(SessionQuestions(difficulty), PoolSize) :
            s_state = create(difficulty, questions, 0)
    /\ u_locked = FALSE /\ u_screen = "quiz" /\ u_subs = <<>> /\ u_results = None
    /\ now = 0

\* a click on the submit button or an Enter keyup in the input
SubmitCurrent ==
    /\ u_screen = "quiz"
    /\ \E value \in SessionInputs : Leaves(submitCurrent(UIState, value))
    /\ UNCHANGED SessionRest

\* revealTimer of a submission fires: the reveal starts its slow fade
RevealTimerFires ==
    /\ \E i \in 1..Len(u_subs) :
         /\ u_subs[i].revealTimer
         /\ Leaves([UIState EXCEPT !.subs[i].revealTimer = FALSE,
                                   !.subs[i].reveal = IF @ = "shown" THEN "fading" ELSE @])
    /\ UNCHANGED SessionRest

\* advanceTimer of a submission fires, after its revealTimer (set for an
\* earlier instant) if that is pending
AdvanceTimerFires ==
    /\ \E i \in 1..Len(u_subs) :
         /\ u_subs[i].advanceTimer
         /\ ~u_subs[i].revealTimer
         /\ \E N \in doAdvance([UIState EXCEPT !.subs[i].advanceTimer = FALSE], i) :
              Leaves(N)
    /\ UNCHANGED SessionRest

\* the fast-fade timer of a submission fires
FastTimerFires ==
    /\ \E i \in 1..Len(u_subs) :
         /\ u_subs[i].fastTimer
         /\ \E N \in finishAdvance([UIState EXCEPT !.subs[i].fastTimer = FALSE], i) :
              Leaves(N)
    /\ UNCHANGED SessionRest

\* a key goes down
Keydown ==
    /\ \E key \in Keys : \E N \in keydown(UIState, key, 1) : Leaves(N)
    /\ UNCHANGED SessionRest

NextSession ==
    SubmitCurrent \/ RevealTimerFires \/ AdvanceTimerFires \/ FastTimerFires \/ Keydown

SpecSession == InitSession /\ [][NextSession]_vars

-----------------------------------------------------------------------------
(* Properties of the session, checked under SpecSession *)

\* the flags of the session agree with its cursor
CompletionFlags ==
    /\ s_state.completed <=> s_state.current_index >= Len(s_state.questions)
    /\ ~s_state.end_time.def <=> ~s_state.completed

\* one step of the session: the answer that brings the cursor to the question
\* count completes the session and stamps it, and a stamp once set stays
CompletionStep ==
    /\ (/\ s_state.current_index < Len(s_state.questions)
        /\ s_state'.current_index >= Len(s_state.questions))
       => (s_state'.completed /\ s_state'.end_time.def)
    /\ s_state.end_time.def => s_state'.end_time = s_state.end_time

\* C13: in every state of a session of N questions, completed is true exactly
\* when current_index has reached N, and end_time is null exactly while
\* completed is false; recording the Nth answer sets completed and stamps
\* end_time, and end_time, once set, is never written again.
C13_SessionCompletion == []CompletionFlags /\ [][CompletionStep]_vars

\* C14: the results shown report the score 100 when every recorded answer is
\* correct and the score 0 when every recorded answer is incorrect.
C14_AllOrNothingScore ==
    u_results # None
    => LET detail == u_results.answers_detail
       IN  /\ (\A i \in 1..Len(detail) : detail[i].is_correct)
                => u_results.score = 100
           /\ (\A i \in 1..Len(detail) : ~detail[i].is_correct)
                => u_results.score = 0

-----------------------------------------------------------------------------
(* Totality of the Validator, checked under SpecVal *)

\* C16: for every question and every input, the empty, the whitespace-only and
\* the punctuation-only input included, validateAnswer returns a verdict: its
\* is_correct is a boolean, its question_id the question's id, its user_input
\* the raw input unchanged and its accepted_as one of full_name, last_name and
\* misspelling_correction.
C16_ValidatorTotal ==
    phase = "validated"
    => /\ v_verdict.kind = "verdict"
       /\ v_verdict.is_correct \in BOOLEAN
       /\ v_verdict.question_id = v_question.id
       /\ v_verdict.user_input = v_input
       /\ v_verdict.accepted_as \in {"full_name", "last_name", "misspelling_correction"}

\* a punctuation-only input is graded, and rejected
C16_Witness ==
    /\ phase = "validated"
    /\ v_input = <<"-">>
    /\ v_verdict.kind = "verdict"
    /\ ~v_verdict.is_correct

-----------------------------------------------------------------------------
(* SpecStr: normalizeName and levenshtein as functions of their arguments.   *)

StrInputs ==
    {<<>>,
     <<" ">>,
     <<"a">>,
     <<"a", "b">>,
     <<"b", "a">>,
     <<"A", " ", "b">>,
     <<" ", "A", " ", "\t", "b", " ">>,
     <<"a", "-", "b">>,
     <<"a", " ", "-", " ", "b">>,
     <<"J", "o", "h", "n">>,
     <<"j", "o", "h", "n">>,
     <<"j", "o", "n">>,
     <<"J", "o", "s", "E_ACUTE">>,
     <<"j", "o", "s", "e">>,
     <<"TM_SIGN", "a">>,
     <<"A", "1", ".">>}

InitStr ==
    /\ phase = "args"
    /\ GenIdle /\ ValIdle /\ SesIdle /\ RngIdle /\ MapIdle
    /\ p_a \in StrInputs
    /\ p_b \in StrInputs
    /\ p_out = None

StrRest == <<genValVars, sesVars, rngVars, mapVars>>

\* the calls levenshtein(a, b) and levenshtein(b, a)
Levenshtein ==
    /\ phase = "args"
    /\ p_out' = [ab |-> levenshtein(p_a, p_b), ba |-> levenshtein(p_b, p_a)]
    /\ phase' = "lev"
    /\ UNCHANGED <<p_a, p_b>>
    /\ UNCHANGED StrRest

\* the calls normalizeName(a) and normalizeName(normalizeName(a))
NormalizeName ==
    /\ phase = "args"
    /\ p_out' = [once |-> normalizeName(p_a),
                 twice |-> normalizeName(normalizeName(p_a))]
    /\ phase' = "norm"
    /\ UNCHANGED <<p_a, p_b>>
    /\ UNCHANGED StrRest

NextStr == Levenshtein \/ NormalizeName

SpecStr == InitStr /\ [][NextStr]_vars

\* C17: levenshtein(a, b) = levenshtein(b, a), and levenshtein(a, b) = 0
\* exactly when the normalized forms of a and b are equal.
C17_LevenshteinSymmetric ==
    phase = "lev"
    => /\ p_out.ab = p_out.ba
       /\ p_out.ab = 0 <=> normalizeName(p_a) = normalizeName(p_b)

\* two different strings of equal normalized form are at distance 0
C17_Witness ==
    /\ phase = "lev"
    /\ p_a = <<"J", "o", "s", "E_ACUTE">>
    /\ p_b = <<"j", "o", "s", "e">>
    /\ p_out.ab = 0

\* only a-z, 0-9 and single spaces, none of them first or last
WellFormedName(str) ==
    /\ \A i \in 1..Len(str) : str[i] \in AsciiLower \cup Digits \cup {" "}
    /\ str # <<>> => (str[1] # " " /\ str[Len(str)] # " ")
    /\ \A i \in 1..(Len(str) - 1) : ~(str[i] = " " /\ str[i + 1] = " ")

\* C18: normalizeName(normalizeName(x)) = normalizeName(x), and normalizeName(x)
\* holds only characters of a-z and 0-9 separated by single spaces, with no
\* space first or last.
C18_NormalizeIdempotent ==
    phase = "norm"
    => /\ p_out.twice = p_out.once
       /\ WellFormedName(p_out.once)

\* a string of mixed case with spaces around and a run of whitespace inside
C18_Witness ==
    /\ phase = "norm"
    /\ p_a = <<" ", "A", " ", "\t", "b", " ">>
    /\ p_out.once = <<"a", " ", "b">>

-----------------------------------------------------------------------------
(* The Generator as a function of its random sources.  rs holds the two      *)
(* sources a call draws from: rs.rnd, the rnd handed to generateQuestion,    *)
(* and rs.math, Math.random; each is a stream [seq, pos] read round and      *)
(* round, a draw k standing for the number k / RndScale of [0, 1).  Each     *)
(* operator gives the value returned and the sources after the call.         *)

\* the draws of a source are the multiples of 1 / RndScale
RndScale == 60

\* a random source: the values it returns, in a cycle; the position of the next
\* one; the number of calls made so far
Stream(seq) == [seq |-> seq, pos |-> 1, calls |-> 0]

Draw(stream) == stream.seq[stream.pos]

Advance(stream) ==
    [stream EXCEPT !.pos = (@ % Len(stream.seq)) + 1, !.calls = @ + 1]

\* Math.floor(x * n) for the draw x
FloorTimes(draw, n) == (draw * n) \div RndScale

Ret(val, rs) == [val |-> val, rs |-> rs]

pickRandomOf(arr, rs) ==
    IF Len(arr) = 0 THEN Ret(Undefined, rs)
    ELSE Ret(Some(arr[FloorTimes(Draw(rs.rnd), Len(arr)) + 1]),
             [rs EXCEPT !.rnd = Advance(@)])

\* i is the code's loop variable plus one
RECURSIVE shuffleInPlaceOf(_, _, _)
shuffleInPlaceOf(arr, i, rs) ==
    IF i <= 1 THEN Ret(arr, rs)
    ELSE shuffleInPlaceOf(SwapAt(arr, i, FloorTimes(Draw(rs.rnd), i) + 1), i - 1,
                          [rs EXCEPT !.rnd = Advance(@)])

\* makeId draws from Math.random
makeIdOf(rs) ==
    Ret(FloorTimes(Draw(rs.math), NumIds) + 1, [rs EXCEPT !.math = Advance(@)])

\* Math.random() < 0.5
coinOf(rs) ==
    Ret(2 * Draw(rs.math) < RndScale, [rs EXCEPT !.math = Advance(@)])

portraitOnlyOf(difficulty, sens, rs) ==
    LET p == pickRandomOf(sens, rs)
        s == p.val
    IN  IF ~s.def \/ ~Truthy(s.val.portrait)
        THEN Ret(errorObject("data_missing", "Portrait asset not found.",
                             Some(IF s.def /\ s.val.name # <<>> THEN s.val.name
                                                               ELSE Unknown)),
                 p.rs)
        ELSE LET id == makeIdOf(p.rs)
             IN  Ret(Question(id.val, "Who is this senator?",
                              [NoVars EXCEPT !.portrait_image =
                                                Some(PortraitUrl(s.val.portrait.val))],
                              difficulty, <<officialName(s.val)>>, EasyModes(difficulty),
                              "portrait", Undefined),
                     id.rs)

stateAnyOf(sens, rs) ==
    LET p       == pickRandomOf(uniqueStates(sens), rs)
        state   == p.val
        matches == IF state.def THEN byState(sens, state.val) ELSE <<>>
    IN  IF Len(matches) < 1
        THEN Ret(errorObject("unsolvable_template",
                             "No senators found for selected state.", state), p.rs)
        ELSE LET id == makeIdOf(p.rs)
             IN  Ret(Question(id.val, "Name a senator from {state}.",
                              [NoVars EXCEPT !.state = state], "Easy",
                              [i \in 1..Len(matches) |-> officialName(matches[i])],
                              <<"last_name", "full_name">>, "text", Undefined),
                     id.rs)

\* loop holds the loop variable attempt and the random sources
RECURSIVE statePartyAnyOf(_, _)
statePartyAnyOf(sens, loop) ==
    IF loop.attempt >= StatePartyAnyAttempts
    THEN Ret(errorObject("unsolvable_template",
                         "Could not find a state+party with at least one match for Easy.",
                         Undefined), loop.rs)
    ELSE LET state   == pickRandomOf(uniqueStates(sens), loop.rs)
             party   == pickRandomOf(Parties, state.rs)
             matches == getByStatePartySeniority(sens, state.val, party.val, Undefined)
         IN  IF Len(matches) >= 1
             THEN LET id == makeIdOf(party.rs)
                  IN  Ret(Question(id.val, "Name a {party} senator from {state}.",
                                   [NoVars EXCEPT !.party = party.val,
                                                  !.state = state.val], "Easy",
                                   [i \in 1..Len(matches) |-> officialName(matches[i])],
                                   <<"last_name", "full_name">>, "text", Undefined),
                          id.rs)
             ELSE statePartyAnyOf(sens, [attempt |-> loop.attempt + 1, rs |-> party.rs])

\* loop holds the loop variable attempt and the random sources
RECURSIVE stateSeniorityOf(_, _, _)
stateSeniorityOf(difficulty, sens, loop) ==
    IF loop.attempt >= StateSeniorityAttempts
    THEN Ret(errorObject("ambiguous_answer",
                         "Could not enforce uniqueness for state+seniority.", Undefined),
             loop.rs)
    ELSE LET state     == pickRandomOf(uniqueStates(sens), loop.rs)
             seniority == pickRandomOf(Seniorities, state.rs)
             matches   == getByStatePartySeniority(sens, state.val, Undefined,
                                                   seniority.val)
         IN  IF Len(matches) = 1
             THEN LET id == makeIdOf(seniority.rs)
                  IN  Ret(Question(id.val, "Name the {seniority} Senator from {state}.",
                                   [NoVars EXCEPT !.state = state.val,
                                                  !.seniority = seniority.val],
                                   difficulty, <<officialName(matches[1])>>,
                                   EasyModes(difficulty), "text", Undefined),
                          id.rs)
             ELSE stateSeniorityOf(difficulty, sens, [attempt |-> loop.attempt + 1, rs |-> seniority.rs])

\* loop holds the loop variable attempt and the random sources
RECURSIVE statePartySeniorityOf(_, _)
statePartySeniorityOf(sens, loop) ==
    IF loop.attempt >= StatePartySeniorityAttempts
    THEN Ret(errorObject("ambiguous_answer",
                         "Could not enforce uniqueness for state+party+seniority in Hard.",
                         Undefined), loop.rs)
    ELSE LET state     == pickRandomOf(uniqueStates(sens), loop.rs)
             party     == pickRandomOf(Parties, state.rs)
             seniority == pickRandomOf(Seniorities, party.rs)
             matches   == getByStatePartySeniority(sens, state.val, party.val,
                                                   seniority.val)
         IN  IF Len(matches) = 1
             THEN LET id == makeIdOf(seniority.rs)
                  IN  Ret(Question(id.val,
                                   "Name the {party} {seniority} Senator from {state}.",
                                   [NoVars EXCEPT !.party = party.val,
                                                  !.seniority = seniority.val,
                                                  !.state = state.val],
                                   "Hard", <<officialName(matches[1])>>, <<"full_name">>,
                                   "text", Undefined),
                          id.rs)
             ELSE statePartySeniorityOf(sens, [attempt |-> loop.attempt + 1, rs |-> seniority.rs])

partyOfPortraitOf(sens, rs) ==
    LET p == pickRandomOf(sens, rs)
        s == p.val
    IN  IF ~s.def THEN Ret(errorObject("data_missing", "No senator found.", Undefined), p.rs)
        ELSE LET id == makeIdOf(p.rs)
             IN  IF ~s.val.portrait.def THEN Ret(Thrown, id.rs)
                 ELSE Ret(Question(id.val, "Which party does {name} belong to?",
                                   [NoVars EXCEPT !.name = Some(officialName(s.val))],
                                   "Easy", <<s.val.party>>, <<"full_name">>,
                                   "party_portrait",
                                   Some(PortraitUrl(s.val.portrait.val))),
                          id.rs)

stateOfPortraitOf(sens, rs) ==
    LET p == pickRandomOf(sens, rs)
        s == p.val
    IN  IF ~s.def THEN Ret(errorObject("data_missing", "No senator found.", Undefined), p.rs)
        ELSE LET id == makeIdOf(p.rs)
             IN  IF ~s.val.portrait.def THEN Ret(Thrown, id.rs)
                 ELSE Ret(Question(id.val, "Which state does {name} represent?",
                                   [NoVars EXCEPT !.name = Some(officialName(s.val))],
                                   "Easy", <<s.val.state>>, <<"full_name">>,
                                   "state_portrait",
                                   Some(PortraitUrl(s.val.portrait.val))),
                          id.rs)

\* the coin is drawn from Math.random, whatever rnd is
partyOfRandomOf(difficulty, sens, rs) ==
    LET p == pickRandomOf(sens, rs)
        s == p.val
    IN  IF ~s.def THEN Ret(errorObject("data_missing", "No senator found.", Undefined), p.rs)
        ELSE LET coin == coinOf(p.rs)
                 id   == makeIdOf(coin.rs)
             IN  IF ~s.val.portrait.def THEN Ret(Thrown, id.rs)
                 ELSE Ret(Question(id.val,
                                   IF coin.val THEN "Which party does this senator belong to?"
                                               ELSE "Which party does {name} belong to?",
                                   IF coin.val THEN NoVars
                                   ELSE [NoVars EXCEPT !.name = Some(officialName(s.val))],
                                   "Hard", <<s.val.party>>, <<"full_name">>,
                                   IF coin.val THEN "party_portrait_hard"
                                               ELSE "party_text_hard",
                                   Some(PortraitUrl(s.val.portrait.val))),
                          id.rs)

stateOfRandomOf(difficulty, sens, rs) ==
    LET p == pickRandomOf(sens, rs)
        s == p.val
    IN  IF ~s.def THEN Ret(errorObject("data_missing", "No senator found.", Undefined), p.rs)
        ELSE LET coin == coinOf(p.rs)
                 id   == makeIdOf(coin.rs)
             IN  IF ~s.val.portrait.def THEN Ret(Thrown, id.rs)
                 ELSE Ret(Question(id.val,
                                   IF coin.val THEN "Which state does this senator represent?"
                                               ELSE "Which state does {name} represent?",
                                   IF coin.val THEN NoVars
                                   ELSE [NoVars EXCEPT !.name = Some(officialName(s.val))],
                                   "Hard", <<s.val.state>>, <<"full_name">>,
                                   IF coin.val THEN "state_portrait_hard"
                                               ELSE "state_text_hard",
                                   Some(PortraitUrl(s.val.portrait.val))),
                          id.rs)

tryTemplateOf(key, difficulty, sens, rs) ==
    CASE key = "portrait_only" -> portraitOnlyOf(difficulty, sens, rs)
      [] key = "state_any" -> stateAnyOf(sens, rs)
      [] key = "state_party_any" -> statePartyAnyOf(sens, [attempt |-> 0, rs |-> rs])
      [] key = "state_seniority" -> stateSeniorityOf(difficulty, sens, [attempt |-> 0, rs |-> rs])
      [] key = "state_party_seniority" -> statePartySeniorityOf(sens, [attempt |-> 0, rs |-> rs])
      [] key = "party_of_portrait" -> partyOfPortraitOf(sens, rs)
      [] key = "state_of_portrait" -> stateOfPortraitOf(sens, rs)
      [] key = "party_of_random" -> partyOfRandomOf(difficulty, sens, rs)
      [] key = "state_of_random" -> stateOfRandomOf(difficulty, sens, rs)
      [] OTHER -> Ret(errorObject("unknown_template", "Unknown template key.", Some(key)),
                      rs)

\* the for loop of generateQuestion from position k of the shuffled list on
RECURSIVE generateLoopOf(_, _, _, _, _)
generateLoopOf(allowed, k, difficulty, sens, rs) ==
    IF k > Len(allowed)
    THEN Ret(errorObject("unsolvable_template",
                         "No suitable template could be generated for the current dataset.",
                         Undefined), rs)
    ELSE LET q == tryTemplateOf(allowed[k].key, difficulty, sens, rs)
         IN  IF q.val.kind = "throw" \/ ~isError(q.val) THEN q
             ELSE generateLoopOf(allowed, k + 1, difficulty, sens, q.rs)

\* generateQuestion(difficulty, senators, rnd), Math.random being rs.math
generateQuestionOf(difficulty, sens, rs) ==
    LET tier     == Templates(difficulty)
        shuffled == shuffleInPlaceOf(tier, Len(tier), rs)
    IN  generateLoopOf(shuffled.val, 1, difficulty, sens, shuffled.rs)

-----------------------------------------------------------------------------
(* SpecRng: generateQuestion is called twice with the same difficulty, the   *)
(* same roster and the same rnd.                                             *)

\* the draws the streams are made of
RndDraws == {0, 25, 45, 59}

\* rnd: a stream of period one or two
RndStreams ==
    {Stream(<<x>>) : x \in RndDraws} \cup {Stream(<<x, y>>) : x, y \in RndDraws}

\* Math.random, as it stands at a call
MathStreams == {Stream(<<x, y>>) : x, y \in {0, 45}}

\* senators.json of the calls
RngDatasets ==
    StartDatasets \cup {<<RawPool[1], RawPool[2]>>, <<RawPool[1], RawPool[3]>>}

InitRng ==
    /\ phase = "rng"
    /\ GenIdle /\ ValIdle /\ SesIdle /\ StrIdle /\ MapIdle
    /\ r_rng \in [difficulty : {"Easy", "Hard"},
                  senators : {loadSenators(d) : d \in RngDatasets},
                  rnd : RndStreams]
    /\ r_first = None
    /\ r_second = None

RngRest == <<genValVars, sesVars, strVars, mapVars>>

\* a call generateQuestion(difficulty, senators, rnd)
FirstCall ==
    /\ phase = "rng"
    /\ \E math \in MathStreams :
         r_first' = generateQuestionOf(r_rng.difficulty, r_rng.senators,
                                       [rnd |-> r_rng.rnd, math |-> math]).val
    /\ phase' = "once"
    /\ UNCHANGED <<r_rng, r_second>>
    /\ UNCHANGED RngRest

\* a second call, with rnd replayed from its start
SecondCall ==
    /\ phase = "once"
    /\ \E math \in MathStreams :
         r_second' = generateQuestionOf(r_rng.difficulty, r_rng.senators,
                                        [rnd |-> r_rng.rnd, math |-> math]).val
    /\ phase' = "twice"
    /\ UNCHANGED <<r_rng, r_first>>
    /\ UNCHANGED RngRest

NextRng == FirstCall \/ SecondCall

SpecRng == InitRng /\ [][NextRng]_vars

\* what a call gave, its question id left out
Outcome(result) ==
    IF result.kind = "question"
    THEN [kind |-> "question", template |-> result.template,
          filled_variables |-> result.filled_variables, type |-> result.type,
          correct_answers |-> result.correct_answers,
          difficulty |-> result.difficulty]
    ELSE result

\* each call gives a value generateQuestion may return
RngAgrees ==
    /\ phase \in {"once", "twice"}
         => r_first \in {c.result :
                           c \in generateQuestion(r_rng.difficulty, r_rng.senators)}

\* C19: two calls of generateQuestion with the same difficulty, the same roster
\* and the same draws of rnd give the same outcome: the same template text,
\* filled variables, kind tag and correct answers, or the same failure.
C19_DeterministicInRng ==
    phase = "twice" => Outcome(r_first) = Outcome(r_second)

-----------------------------------------------------------------------------
(* The map quiz (script.js).  A point is <<lng, lat>>; the board is made of  *)
(* rectangles with whole-number corners.                                     *)

\* the ring of the rectangle with corners (x1, y1) and (x2, y2), closed as in
\* GeoJSON
RectRing(x1, y1, x2, y2) ==
    <<<<x1, y1>>, <<x2, y1>>, <<x2, y2>>, <<x1, y2>>, <<x1, y1>>>>

\* the features of us_states.geojson: a Polygon and a MultiPolygon of two parts
StateGeometry(state) ==
    IF state = "Ohio"
    THEN [type |-> "Polygon", coordinates |-> <<RectRing(0, 0, 4, 4)>>]
    ELSE [type |-> "MultiPolygon",
          coordinates |-> <<<<RectRing(6, 0, 10, 4)>>, <<RectRing(6, 6, 10, 10)>>>>]

\* bounds.getCenter() of the feature
StateCenter(state) == IF state = "Ohio" THEN <<2, 2>> ELSE <<8, 5>>

\* a record of senators.json or governors.json after joinGeometryToData
Politician(name, state, party) ==
    [name |-> name, state |-> state, party |-> party,
     center |-> StateCenter(state), geometry |-> StateGeometry(state)]

\* senatorData and governorData after init: as loaded, or with senators.json
\* failing to load
MapDatasets ==
    {[senators |-> <<Politician("Brown", "Ohio", "D"), Politician("King", "Maine", "I")>>,
      governors |-> <<Politician("DeWine", "Ohio", "R")>>],
     [senators |-> <<>>,
      governors |-> <<Politician("DeWine", "Ohio", "R")>>]}

\* where the user clicks: inside Ohio, inside the second part of Maine, in
\* neither
ClickPoints == {<<2, 2>>, <<8, 8>>, <<5, 5>>}

\* the point lies in a rectangle of the state
InState(point, state) ==
    IF state = "Ohio"
    THEN point[1] \in 1..3 /\ point[2] \in 1..3
    ELSE point[1] \in 7..9 /\ (point[2] \in 1..3 \/ point[2] \in 7..9)

\* the guesses evaluated in one game of the model
MaxGuesses == 3

\* the map clicks of one round of the model
MaxClicks == 2

\* one edge of the ring crosses the ray of the point: ring[i], ring[j]
Intersect(point, ring, i, j) ==
    LET x  == point[1]
        y  == point[2]
        xi == ring[i][1]
        yi == ring[i][2]
        xj == ring[j][1]
        yj == ring[j][2]
    IN  /\ (yi > y) # (yj > y)
        /\ IF yj - yi > 0
           THEN (x - xi) * (yj - yi) < (xj - xi) * (y - yi)
           ELSE (x - xi) * (yj - yi) > (xj - xi) * (y - yi)

\* the for loop of checkPointInPolygonCoordinates from index i on (i and j one
\* more than in the code)
RECURSIVE RayCast(_, _, _, _, _)
RayCast(point, ring, i, j, inside) ==
    IF i > Len(ring) THEN inside
    ELSE RayCast(point, ring, i + 1, i,
                 IF Intersect(point, ring, i, j) THEN ~inside ELSE inside)

checkPointInPolygonCoordinates(point, coordinates) ==
    LET ring == coordinates[1]
    IN  RayCast(point, ring, 1, Len(ring), FALSE)

isPointInPolygon(point, geometry) ==
    IF geometry.type = "MultiPolygon"
    THEN \E k \in 1..Len(geometry.coordinates) :
            checkPointInPolygonCoordinates(point, geometry.coordinates[k])
    ELSE IF geometry.type = "Polygon"
    THEN checkPointInPolygonCoordinates(point, geometry.coordinates)
    ELSE FALSE

\* Number.prototype.toString of localStorage.setItem, and parseInt
RECURSIVE ParseDigits(_, _, _)
ParseDigits(str, i, acc) ==
    IF i > Len(str) THEN acc ELSE ParseDigits(str, i + 1, acc * 10 + str[i])

parseInt(str) == ParseDigits(str, 1, 0)

NoLayers ==
    [userMarker |-> Undefined, actualMarker |-> Undefined,
     connectionLine |-> Undefined, highlightedPolygon |-> Undefined]

\* the state of script.js a handler works on
MapState ==
    [mode |-> m_mode, targets |-> m_targets, target |-> m_target, streak |-> m_streak,
     highScore |-> m_highScore, stored |-> m_stored, last |-> m_last,
     hasGuessed |-> m_hasGuessed, layers |-> m_layers, panel |-> m_panel,
     overlay |-> m_overlay]

\* nextRound keeping the streak after a wrong guess
nextStreakKept(last, streak) == IF last THEN streak + 1 ELSE streak

\* the streak nextRound sets
nextStreak(last, streak) == IF last THEN streak + 1 ELSE 0

updateStreakDisplay(G) ==
    IF G.streak > G.highScore
    THEN [G EXCEPT !.highScore = G.streak, !.stored = Some(DecimalString(G.streak))]
    ELSE G

\* clearMarkers
clearMarkers(G) == [G EXCEPT !.layers = NoLayers]

\* startRound with currentTarget = filteredTargets[k]; on an empty list
\* currentTarget is undefined and the round stops at currentTarget.party
startRound(G, k) ==
    LET cleared == [clearMarkers(G) EXCEPT !.hasGuessed = FALSE, !.panel = FALSE]
    IN  [cleared EXCEPT !.target = IF k \in 1..Len(G.targets) THEN G.targets[k] ELSE None]

\* the values Math.floor(Math.random() * filteredTargets.length) + 1 may take
TargetIndexes(G) == IF Len(G.targets) = 0 THEN {0} ELSE 1..Len(G.targets)

\* script.js startGame(mode), data being senatorData and governorData
mapStartGame(G, mode, data) ==
    LET reset   == updateStreakDisplay([G EXCEPT !.mode = mode, !.streak = 0])
        started == [reset EXCEPT !.targets = IF mode = "senators" THEN data.senators
                                                                  ELSE data.governors,
                                 !.overlay = FALSE]
    IN  {startRound(started, k) : k \in TargetIndexes(started)}

\* displayResult: the guess is graded and the result panel is shown
displayResult(G, point) ==
    [G EXCEPT !.last = isPointInPolygon(point, G.target.geometry), !.panel = TRUE]

\* handleMapClick evaluating a click whether or not the round has its guess
handleMapClickUnguarded(G, point) ==
    IF G.target = None THEN [G EXCEPT !.hasGuessed = TRUE]
    ELSE displayResult(
            [G EXCEPT !.hasGuessed = TRUE,
                      !.layers = [userMarker |-> Some(point),
                                  actualMarker |-> Some(G.target.center),
                                  highlightedPolygon |-> Some(G.target.state),
                                  connectionLine |-> Some(<<point, G.target.center>>)]],
            point)

\* handleMapClick at the point; with no currentTarget it stops at
\* currentTarget.lat, hasGuessed already set
handleMapClick(G, point) ==
    IF G.hasGuessed THEN G
    ELSE IF G.target = None THEN [G EXCEPT !.hasGuessed = TRUE]
    ELSE displayResult(
            [G EXCEPT !.hasGuessed = TRUE,
                      !.layers = [userMarker |-> Some(point),
                                  actualMarker |-> Some(G.target.center),
                                  highlightedPolygon |-> Some(G.target.state),
                                  connectionLine |-> Some(<<point, G.target.center>>)]],
            point)

nextRound(G) ==
    LET counted == updateStreakDisplay([G EXCEPT !.streak = nextStreak(G.last, G.streak)])
    IN  {startRound(counted, k) : k \in TargetIndexes(counted)}

changeMode(G) == [clearMarkers(G) EXCEPT !.overlay = TRUE]

-----------------------------------------------------------------------------
(* SpecMap: the map quiz from the loading of the page on.                    *)

MapLeaves(G) ==
    /\ m_mode' = G.mode
    /\ m_targets' = G.targets
    /\ m_target' = G.target
    /\ m_streak' = G.streak
    /\ m_highScore' = G.highScore
    /\ m_stored' = G.stored
    /\ m_last' = G.last
    /\ m_hasGuessed' = G.hasGuessed
    /\ m_layers' = G.layers
    /\ m_panel' = G.panel
    /\ m_overlay' = G.overlay

MapRest == <<genValVars, sesVars, strVars, rngVars>>

\* the page is loaded; localStorage holds the high score of an earlier visit,
\* or none
InitMap ==
    /\ phase = "load"
    /\ GenIdle /\ ValIdle /\ SesIdle /\ StrIdle /\ RngIdle
    /\ m_mode = "" /\ m_data = None /\ m_targets = <<>> /\ m_target = None
    /\ m_streak = 0 /\ m_highScore = 0
    /\ m_stored \in {Undefined} \cup {Some(DecimalString(n)) : n \in 0..MaxGuesses}
    /\ m_last = FALSE /\ m_hasGuessed = FALSE /\ m_layers = NoLayers
    /\ m_panel = FALSE /\ m_overlay = TRUE /\ m_guesses = <<>> /\ m_clicks = 0

\* init: the data is loaded, loadPreferences reads the high score, the
\* listeners are registered
MapInit ==
    /\ phase = "load"
    /\ m_data' \in MapDatasets
    /\ m_highScore' = IF Truthy(m_stored) THEN parseInt(m_stored.val) ELSE m_highScore
    /\ phase' = "map"
    /\ UNCHANGED <<m_mode, m_targets, m_target, m_streak, m_stored, m_last,
                   m_hasGuessed, m_layers, m_panel, m_overlay, m_guesses, m_clicks>>
    /\ UNCHANGED MapRest

\* a click on a mode button of the mode selection
MapStartGame ==
    /\ phase = "map"
    /\ \E mode \in {"senators", "governors"} :
         \E G \in mapStartGame(MapState, mode, m_data) : MapLeaves(G)
    /\ m_guesses' = <<>>
    /\ m_clicks' = 0
    /\ UNCHANGED <<phase, m_data>>
    /\ UNCHANGED MapRest

\* a click on the map; m_guesses notes a guess that is evaluated, with whether
\* the point lies in a rectangle of the target's state
MapClick ==
    /\ phase = "map"
    /\ Len(m_guesses) < MaxGuesses
    /\ m_clicks < MaxClicks
    /\ m_clicks' = m_clicks + 1
    /\ \E point \in ClickPoints :
         /\ MapLeaves(handleMapClick(MapState, point))
         /\ m_guesses' =
              IF m_hasGuessed \/ m_target = None THEN m_guesses
              ELSE Append(m_guesses,
                          [inside |-> InState(point, m_target.state),
                           confirmed |-> FALSE])
    /\ UNCHANGED <<phase, m_data>>
    /\ UNCHANGED MapRest

\* a click on Next.  The button is part of the result panel (index.html; its
\* label is set by displayResult with the panel's other fields, and the README
\* has the player hit it after reading the result), so that it can be clicked
\* only while the panel is shown
NextRound ==
    /\ phase = "map"
    /\ m_panel
    /\ \E G \in nextRound(MapState) : MapLeaves(G)
    /\ m_guesses' = [i \in 1..Len(m_guesses) |-> [m_guesses[i] EXCEPT !.confirmed = TRUE]]
    /\ m_clicks' = 0
    /\ UNCHANGED <<phase, m_data>>
    /\ UNCHANGED MapRest

\* a click on Change mode
ChangeMode ==
    /\ phase = "map"
    /\ MapLeaves(changeMode(MapState))
    /\ UNCHANGED <<phase, m_data, m_guesses, m_clicks>>
    /\ UNCHANGED MapRest

NextMap == MapInit \/ MapStartGame \/ MapClick \/ NextRound \/ ChangeMode

SpecMap == InitMap /\ [][NextMap]_vars

\* the guesses nextRound has confirmed
Confirmed == SelectSeq(m_guesses, LAMBDA g : g.confirmed)

\* the number of correct guesses at the end of the confirmed ones
RECURSIVE TrailingCorrect(_)
TrailingCorrect(gs) ==
    IF gs = <<>> \/ ~gs[Len(gs)].inside THEN 0
    ELSE 1 + TrailingCorrect(SubSeq(gs, 1, Len(gs) - 1))

StreakCounts ==
    /\ m_streak = TrailingCorrect(Confirmed)
    /\ m_highScore >= m_streak

C21_LineOnlyWhenWrong ==
    m_layers.userMarker # Undefined =>
        /\ m_layers.highlightedPolygon = Some(m_target.state)
        /\ (m_layers.connectionLine # Undefined
              <=> ~InState(m_layers.userMarker.val, m_target.state))

-----------------------------------------------------------------------------
(* SpecTpl: one call of tryTemplate, on its own.  r_rng holds the arguments  *)
(* and Math.random as it stands at the call, r_first the key, the value      *)
(* returned and the random sources after the call.                           *)

\* the keys of Templates, and one that is not registered
TemplateKeys ==
    {"portrait_only", "state_any", "state_party_any", "state_seniority",
     "state_party_seniority", "party_of_portrait", "state_of_portrait",
     "party_of_random", "state_of_random", "state_capital"}

\* senators.json of the call: also two Senior senators of one state
TplDatasets == RngDatasets \cup {<<RawPool[1], RawPool[4]>>}

InitTpl ==
    /\ phase = "tpl"
    /\ GenIdle /\ ValIdle /\ SesIdle /\ StrIdle /\ MapIdle
    /\ r_rng \in [difficulty : {"Easy", "Hard"},
                  senators : {loadSenators(d) : d \in TplDatasets},
                  rnd : RndStreams, math : MathStreams]
    /\ r_first = None
    /\ r_second = None

\* a call tryTemplate(key, difficulty, senators, rnd)
TryTemplate ==
    /\ phase = "tpl"
    /\ \E key \in TemplateKeys :
         r_first' = [key |-> key,
                     ret |-> tryTemplateOf(key, r_rng.difficulty, r_rng.senators,
                                           [rnd |-> r_rng.rnd, math |-> r_rng.math])]
    /\ phase' = "called"
    /\ UNCHANGED <<r_rng, r_second>>
    /\ UNCHANGED RngRest

NextTpl == TryTemplate

SpecTpl == InitTpl /\ [][NextTpl]_vars

\* the calls of rnd one pass of a template's loop makes: pickRandom draws
\* nothing from an empty list
CallsPerAttempt(key, sens) ==
    (IF uniqueStates(sens) = <<>> THEN 0 ELSE 1)
    + (IF key = "state_party_seniority" THEN 2 ELSE 1)

\* the passes of its loop the call has made
AttemptsMade == r_first.ret.rs.rnd.calls \div CallsPerAttempt(r_first.key, r_rng.senators)

\* the bound the claim gives for a template
DrawBound(key) ==
    IF key = "state_party_any" THEN 30 ELSE IF key = "state_seniority" THEN 40 ELSE 50

ConstrainedKeys == {"state_party_any", "state_seniority", "state_party_seniority"}

\* C22: a call of statePartyAny makes at most 30 draws of its variables,
\* stateSeniority at most 40 and statePartySeniority at most 50; the call
\* returns a Question or a failure, never throws, and returns the failure
\* exactly when every draw within the bound has failed.
C22_BoundedSearch ==
    (phase = "called" /\ r_first.key \in ConstrainedKeys) =>
        /\ r_first.ret.val.kind \in {"question", "error"}
        /\ AttemptsMade * CallsPerAttempt(r_first.key, r_rng.senators)
             = r_first.ret.rs.rnd.calls
        /\ AttemptsMade <= DrawBound(r_first.key)
        /\ AttemptsMade >= 1
        /\ isError(r_first.ret.val) => AttemptsMade = DrawBound(r_first.key)

\* statePartyAny has drawn a state and a party 30 times without a match and
\* has returned the failure
C22_Witness ==
    /\ phase = "called"
    /\ r_first.key = "state_party_any"
    /\ isError(r_first.ret.val)
    /\ uniqueStates(r_rng.senators) # <<>>
    /\ r_first.ret.rs.rnd.calls = 60

\* the kinds of failure of the Generator
ErrorKinds == {"unknown_template", "unsolvable_template", "data_missing", "ambiguous_answer"}

\* the entity a template picks first: pickRandom(senators, rnd)
ChosenEntity == pickRandomOf(r_rng.senators, [rnd |-> r_rng.rnd, math |-> r_rng.math]).val

\* the kind of failure the claim gives for the call, "" for none
ExpectedFailure(key) ==
    IF key \notin {t.key : t \in {Templates("Easy")[i] : i \in 1..Len(Templates("Easy"))}
                                 \cup {Templates("Hard")[i] : i \in 1..Len(Templates("Hard"))}}
    THEN "unknown_template"
    ELSE IF key \in {"state_seniority", "state_party_seniority"}
    THEN (IF AttemptsMade = DrawBound(key) /\ r_first.ret.rs.math.calls = 0
          THEN "ambiguous_answer" ELSE "")
    ELSE IF key = "state_party_any"
    THEN (IF AttemptsMade = DrawBound(key) /\ r_first.ret.rs.math.calls = 0
          THEN "unsolvable_template" ELSE "")
    ELSE IF key = "state_any"
    THEN (IF r_rng.senators = <<>> THEN "unsolvable_template" ELSE "")
    ELSE IF ~ChosenEntity.def THEN "data_missing"
    ELSE IF key = "portrait_only" /\ ChosenEntity.val.portrait = Some(<<>>)
    THEN "data_missing"
    ELSE ""

\* C23: a call of tryTemplate returns a Question or a failure of one of the four
\* kinds: unknown_template for an unregistered key, ambiguous_answer when
\* stateSeniority or statePartySeniority has used up its attempts,
\* data_missing when the chosen entity is absent or, for portraitOnly, has no
\* portrait, unsolvable_template when stateAny or statePartyAny finds no match.
C23_TypedFailures ==
    phase = "called" =>
        /\ r_first.ret.val.kind \in {"question", "error"}
        /\ isError(r_first.ret.val) => r_first.ret.val.error_type \in ErrorKinds
        /\ IF ExpectedFailure(r_first.key) = ""
           THEN r_first.ret.val.kind = "question"
           ELSE /\ isError(r_first.ret.val)
                /\ r_first.ret.val.error_type = ExpectedFailure(r_first.key)

\* stateSeniority has failed on a roster whose two senators are both the
\* Senior senator of one state
C23_Witness ==
    /\ phase = "called"
    /\ r_first.key = "state_seniority"
    /\ Len(r_rng.senators) = 2
    /\ isError(r_first.ret.val)
    /\ r_first.ret.val.error_type = "ambiguous_answer"

-----------------------------------------------------------------------------
(* The feedback window of a submission, checked under SpecSession *)

\* the submission is in its feedback window: its finishAdvance has not run,
\* its advance timer or its fast-fade timer is pending
InWindow(c) == c.advanceTimer \/ c.fastTimer

\* C24: while a submission is in its feedback window the UI is locked, so that
\* a further submit event validates and records nothing, and at most one
\* submission is in its feedback window at a time.
C24_DoubleSubmitGuard ==
    /\ (\E i \in 1..Len(u_subs) : InWindow(u_subs[i])) => u_locked
    /\ Cardinality({i \in 1..Len(u_subs) : InWindow(u_subs[i])}) <= 1

-----------------------------------------------------------------------------
(* One guess a round, checked under SpecMap *)

\* a step that is a map click after the first of its round changes nothing of
\* the quiz
LaterClickIgnored ==
    (m_clicks >= 1 /\ m_clicks' = m_clicks + 1) =>
        UNCHANGED <<m_layers, m_panel, m_last, m_hasGuessed, m_streak, m_highScore,
                    m_target, m_guesses>>

\* C25: at most one guess is evaluated in a round: after the first map click of
\* a round every further map click leaves the markers, the result and
\* lastGuessSuccessful as they are, until startRound begins the next round.
C25_OneGuessPerRound ==
    /\ [](Cardinality({i \in 1..Len(m_guesses) : ~m_guesses[i].confirmed}) <= 1)
    /\ [](m_clicks >= 1 => m_hasGuessed)
    /\ [][LaterClickIgnored]_vars

\* a round has had its guess evaluated and a second click
C25_Witness ==
    /\ m_clicks = 2
    /\ m_panel
    /\ m_layers.userMarker # Undefined

-----------------------------------------------------------------------------
(* The answers and the summary of the session, checked under SpecSession *)

\* C26: in every state of the session each verdict has been recorded once:
\* the answers are as many as current_index, no more than the questions, and
\* the i-th answer carries the id of the i-th question.
C26_AnsweredExactlyOnce ==
    /\ Len(s_state.answers) = s_state.current_index
    /\ s_state.current_index <= Len(s_state.questions)
    /\ \A i \in 1..Len(s_state.answers) :
         /\ i <= Len(s_state.questions)
         /\ s_state.answers[i].question_id = s_state.questions[i].id

\* the correct ones among the recorded answers
CorrectRecorded == SelectSeq(s_state.answers, LAMBDA a : a.is_correct)

\* C27: in every state of the session score counts the recorded answers that
\* are correct, and toResults gives 0 <= correct_answers <= total_questions,
\* incorrect_answers >= 0, correct_answers + incorrect_answers =
\* total_questions and a score from 0 to 100.
C27_SummaryConsistent ==
    /\ s_state.score = Len(CorrectRecorded)
    /\ \A r \in {toResults(s_state, t) : t \in ClockFrom(now)} :
         /\ 0 <= r.correct_answers
         /\ r.correct_answers <= r.total_questions
         /\ r.incorrect_answers >= 0
         /\ r.correct_answers + r.incorrect_answers = r.total_questions
         /\ r.score \in 0..100

-----------------------------------------------------------------------------
(* SpecStates: validateAnswer on the questions stateOfPortrait makes for     *)
(* senators of states whose names have two words.                            *)

NorthCarolina ==
    <<"N", "o", "r", "t", "h", " ", "C", "a", "r", "o", "l", "i", "n", "a">>
SouthCarolina ==
    <<"S", "o", "u", "t", "h", " ", "C", "a", "r", "o", "l", "i", "n", "a">>
NorthDakota ==
    <<"N", "o", "r", "t", "h", " ", "D", "a", "k", "o", "t", "a">>
NewYork ==
    <<"N", "e", "w", " ", "Y", "o", "r", "k">>
NewMexico ==
    <<"N", "e", "w", " ", "M", "e", "x", "i", "c", "o">>
WestVirginia ==
    <<"W", "e", "s", "t", " ", "V", "i", "r", "g", "i", "n", "i", "a">>

\* the states of the roster
StateNames == {NorthCarolina, SouthCarolina, NorthDakota, NewYork, NewMexico, WestVirginia}

\* senators.json with one senator of the state
StateRosters ==
    {loadSenators(<<RawRecord(Some(name), Some(state), Some(Democrat), Some(Senior),
                              Some(<<"p", "1">>), Undefined)>>)
     : name \in {JohnSmith, AlLee}, state \in StateNames}

\* the questions stateOfPortrait returns on these rosters
StateQuestions == UNION {stateOfPortrait(sens) : sens \in StateRosters}

\* what the user types: a state name, or something near one
StateInputs ==
    StateNames \cup
    {<<"s", "o", "u", "t", "h", " ", " ", "c", "a", "r", "o", "l", "i", "n", "a">>,
     <<"C", "a", "r", "o", "l", "i", "n", "a">>,
     <<"S", ".", " ", "C", "a", "r", "o", "l", "i", "n", "a">>,
     <<"N", "o", "r", "t", "h", " ", "C", "a", "r", "o", "l", "n", "a">>,
     <<"y", "o", "r", "k">>,
     <<"x", "y", "z">>}

InitStates ==
    /\ phase = "input"
    /\ GenIdle
    /\ v_question \in StateQuestions
    /\ v_input \in StateInputs
    /\ v_verdict = None
    /\ w_target = <<>> /\ w_result = FALSE
    /\ SesIdle /\ StrIdle /\ RngIdle /\ MapIdle

NextStates == ValidateAnswer

SpecStates == InitStates /\ [][NextStates]_vars

\* C28: an Easy question whose one correct answer is a state name does not
\* accept the name of another state: with correct_answers = [A] and the input
\* B, A and B two names of states of the roster, validateAnswer returns
\* is_correct = false.
C28_OtherStateRejected ==
    (/\ phase = "validated"
     /\ v_input \in StateNames
     /\ v_input # v_question.correct_answers[1])
    => ~v_verdict.is_correct

-----------------------------------------------------------------------------
(* Questions shown by portrait alone, checked under SpecGen *)

\* the kinds whose prompt holds no name
PortraitAloneKinds == {"portrait", "party_portrait_hard", "state_portrait_hard"}

\* the portrait the question carries: portraitOnly files it under
\* filled_variables, the other templates under portrait_image
PortraitRef(q) ==
    IF q.type = "portrait" THEN q.filled_variables.portrait_image ELSE q.portrait_image

\* C29: every generated question of the kinds portrait, party_portrait_hard
\* and state_portrait_hard carries the portrait of a roster entity whose
\* portrait reference is not empty.
C29_PortraitAloneHasPortrait ==
    (/\ phase = "generated"
     /\ g_result.kind = "question"
     /\ g_result.type \in PortraitAloneKinds)
    => /\ PortraitRef(g_result).def
       /\ \E i \in 1..Len(senators) :
            /\ Truthy(senators[i].portrait)
            /\ PortraitUrl(senators[i].portrait.val) = PortraitRef(g_result).val

-----------------------------------------------------------------------------
(* SpecSessionFair: the session with its timers firing.  A timer set by      *)
(* setTimeout and not cleared fires in the end, whatever else happens; the   *)
(* user's events are under no obligation.                                    *)

SpecSessionFair ==
    /\ SpecSession
    /\ WF_vars(RevealTimerFires)
    /\ WF_vars(AdvanceTimerFires)
    /\ WF_vars(FastTimerFires)

\* some submission is in its feedback window
WindowOpen == \E i \in 1..Len(u_subs) : InWindow(u_subs[i])

\* C30: once submitCurrent has locked the UI for a verdict, under the firing of
\* the timers and whatever keys go down, finishAdvance runs in the end: the UI
\* is unlocked again, and every feedback window closes with its verdict
\* recorded.
C30_EventuallyAdvances ==
    /\ u_locked ~> ~u_locked
    /\ WindowOpen ~> (~WindowOpen /\ Len(s_state.answers) >= 1)

\* a wrong answer has been shown with its reveal, the reveal has been removed
\* by finishAdvance and the UI is unlocked
C30_Witness ==
    /\ ~u_locked
    /\ Len(s_state.answers) >= 1
    /\ \E i \in 1..Len(u_subs) : u_subs[i].reveal = "removed" /\ ~InWindow(u_subs[i])

====
